---- MODULE Spec2Model ----
(***************************************************************************)
(* Model of the SCWS backend (EmekaIwuagwu/swbackend, backend/scws):       *)
(*   - ADBDeviceManager  (core/adb/device_manager.py): the device registry *)
(*     with its connection map, session map, health loop and shutdown;     *)
(*   - ADBConnection     (core/adb/connection.py);                         *)
(*   - ScrcpyProcessManager (core/scrcpy/process_manager.py): the          *)
(*     lifecycle manager and its relay task;                               *)
(*   - the streaming endpoints (api/streaming.py) and the lifespan         *)
(*     (main.py);                                                          *)
(*   - ConnectionManager (ws/router.py): the stream fan-out.               *)
(*                                                                         *)
(* The program is single-threaded asyncio: a coroutine runs without        *)
(* interruption from one await to the next.  Every action below is one     *)
(* such run-to-next-await segment of one task; the interleavings TLC       *)
(* explores are the orders in which the event loop may resume the tasks.   *)
(* The outcomes of the collaborators (transport handshake, shell, close,   *)
(* deploy) are the environment's choice.  Steps the loop has already made  *)
(* ready run before the completion of I/O begun after them (ReadyTasks).   *)
(*                                                                         *)
(* Specifications: SpecRegistry (device registry), SpecManager and         *)
(* SpecManagerSeq (one lifecycle manager, concurrent or single caller),    *)
(* SpecStream (streaming endpoints and application shutdown), SpecFanout   *)
(* (websocket fan-out), SpecQuiet (fan-out to clients that send nothing),  *)
(* SpecConnection (one connection, its transport and the deployer),        *)
(* SpecRestart (the registry initialized again after a shutdown),          *)
(* SpecCancel (one manager whose caller's start() may time out), SpecEvict *)
(* (one manager whose device the registry disconnects, with fairness) and  *)
(* SpecStuck (fan-out with a subscriber that never takes a write, with     *)
(* fairness).                                                              *)
(***************************************************************************)
EXTENDS Integers, Sequences, FiniteSets, TLC

\* ------------------------------------------------------------------ bounds
\* Connection objects that may be constructed in one behaviour.
MaxConn == 2
\* Lifecycle managers that may be constructed in one behaviour.
MaxMgr == 3
\* Relay tasks that may be created in one behaviour.
MaxTask == 3
\* Websockets that may be opened in one behaviour.
MaxWs == 2
\* Broadcasts that may be issued in one behaviour.
MaxBroadcast == 2
\* Values of a manager's state field that are remembered, latest last.
TrailLen == 5
\* Instants datetime.now() passes through in one behaviour.
MaxClock == 2

Serials == {"dev1", "dev2"}
Clients == {"c1", "c2"}
ConnIds == 1 .. MaxConn
MgrIds == 1 .. MaxMgr
TaskIds == 1 .. MaxTask
WsIds == 1 .. MaxWs
BcIds == 1 .. MaxBroadcast

VARIABLES
    \* ---- ADBConnection objects (identity = index)
    conns,          \* ConnIds -> [alloc, serial, device, connected]
    \* ---- ADBDeviceManager
    connections,    \* _connections: sequence of <<serial, conn>> (dict order)
    devices,        \* _devices: serial -> id of the connection whose info it holds, 0 = absent
    polling_task,   \* _polling_task: "none" | "alive" | "done"
    running,        \* _running
    \* ---- the poll task (poll_loop / poll_devices)
    poll,           \* [pc, snap, results, idx, k, cancel]
    \* ---- ADBDeviceManager.shutdown() call
    shut,           \* [pc, pending, snap, aft]
    \* ---- callers: tasks running a registry operation, a manager operation
    \*      or a streaming endpoint
    cl,             \* Clients -> [op, pc, serial, conn, res, ret, m, m2, wait, aft, afc]
    \* ---- ScrcpyProcessManager objects (identity = index)
    mgr,            \* MgrIds -> [alloc, conn, config, state, start_time, error, process_task,
                    \*   trail]; trail: the values state has held, latest last
    \* ---- relay tasks (_run_server_process), identity = index
    task,           \* TaskIds -> [pc, m, cancel, target, aft, afc]
    \* ---- api/streaming.py
    active_streams, \* serial -> manager id, 0 = absent
    \* ---- ws/router.py
    active_connections, \* manager.active_connections: a dict, serial -> set of websockets
    ws,             \* WsIds -> [pc, serial, endpoint, client_state]: a websocket and its handler
    bc,             \* BcIds -> a send_message / send_binary call: [pc, serial, idx, used,
                    \*   disconnected, sent, orphan, churn, res]
    got,            \* WsIds -> what the websocket's client was sent, in order:
                    \*   0 the device information, i the message of call i
    pend,           \* WsIds -> the writes in progress on the websocket, oldest
                    \*   first: 0 the handler's, i that of call i
    \* ---- one ADBConnection in detail (SpecConnection)
    connection,     \* [device, connected, last_activity]: _device is set,
                    \*   _connected, _last_activity (0 = None)
    now,            \* datetime.now()
    transport,      \* the command the transport handle is executing, "none" = idle
    server_file     \* [local, device]: the scrcpy-server artifact exists at
                    \*   settings.scrcpy_server_path / at SERVER_REMOTE_PATH

regVars == <<conns, connections, devices, polling_task, running, poll, shut>>
mgrVars == <<mgr, task, active_streams>>
fanVars == <<active_connections, ws, bc, got, pend>>
linkVars == <<connection, now, transport, server_file>>
vars == <<conns, connections, devices, polling_task, running, poll, shut, cl,
          mgr, task, active_streams, active_connections, ws, bc, got, pend,
          connection, now, transport, server_file>>

\* ------------------------------------------------------- ADBConnection
\* ADBConnection.__init__: no transport handle, not connected.
NewConnection(s) == [alloc |-> TRUE, serial |-> s, device |-> FALSE, connected |-> FALSE]

FreeConnection == [alloc |-> FALSE, serial |-> "dev1", device |-> FALSE, connected |-> FALSE]

\* ADBConnection.__init__, with the activity stamp (0 = None): the object
\* SpecConnection follows in detail.
NewADBConnection == [device |-> FALSE, connected |-> FALSE, last_activity |-> 0]

\* ADBConnection.is_connected
is_connected(c) == c.connected /\ c.device

\* ADBConnection.connect(), after the awaited handshake: on success the
\* handle stays and connected is set; on failure connected is cleared and
\* the handle created before the handshake stays in place.
ConnectDone(c, ok) == [c EXCEPT !.device = TRUE, !.connected = ok]

\* ADBConnection.disconnect(), after the awaited close() succeeded.
DisconnectDone(c) == [c EXCEPT !.device = FALSE, !.connected = FALSE]

\* ------------------------------------------- the _connections dictionary
ConnIndex(cs, s) == {i \in 1 .. Len(cs) : cs[i][1] = s}

\* _connections.get(serial); 0 stands for None.
ConnGet(cs, s) ==
    IF ConnIndex(cs, s) = {} THEN 0 ELSE cs[CHOOSE i \in ConnIndex(cs, s) : TRUE][2]

\* A mutation of the store: the entry is written under another serial.
ConnPutOtherKey(cs, s, k) ==
    LET u == CHOOSE x \in Serials : x # s IN
    IF ConnIndex(cs, u) = {} THEN Append(cs, <<u, k>>)
    ELSE [i \in 1 .. Len(cs) |-> IF cs[i][1] = u THEN <<u, k>> ELSE cs[i]]

\* _connections[serial] = connection: an existing key keeps its position.
ConnPut(cs, s, k) ==
    IF ConnIndex(cs, s) = {} THEN Append(cs, <<s, k>>)
    ELSE [i \in 1 .. Len(cs) |-> IF cs[i][1] = s THEN <<s, k>> ELSE cs[i]]

\* del _connections[serial]
ConnDel(cs, s) == SelectSeq(cs, LAMBDA p : p[1] # s)

ConnKeys(cs) == {cs[i][1] : i \in 1 .. Len(cs)}

\* ADBDeviceManager.get_connection: the connection, or "DeviceNotFound".
get_connection(cs, s) == IF ConnGet(cs, s) = 0 THEN "DeviceNotFound" ELSE "ok"

\* ADBDeviceManager.list_devices: the serials that have a session.
list_devices == {s \in Serials : devices[s] # 0}

\* ------------------------------------------------------------------ init
\* An exception is known by its class and its message; NoError stands for
\* no exception.
NoError == [kind |-> "none", message |-> "none"]

IdleClient == [op |-> "none", pc |-> "idle", serial |-> "dev1", conn |-> 0,
               res |-> "none", ret |-> 0, m |-> 0, m2 |-> 0, wait |-> 0,
               aft |-> {}, afc |-> {}, err |-> NoError,
               before |-> [last_activity |-> 0, on_device |-> FALSE]]

\* A caller whose call has returned: only the outcome ("ok" with the value
\* returned, or "raised") is left of the frame.
Returned(res, ret) == [IdleClient EXCEPT !.res = res, !.ret = ret]

IdlePoll == [pc |-> "none", snap |-> <<>>, results |-> [s \in Serials |-> "none"],
             idx |-> 0, k |-> 0, cancel |-> FALSE]

IdleShut == [pc |-> "idle", pending |-> {}, snap |-> {}, aft |-> {}]

FreeManager == [alloc |-> FALSE, conn |-> 0, config |-> "default", state |-> "Stopped",
                start_time |-> 0, error |-> "none", process_task |-> 0,
                trail |-> <<"Stopped">>]

FreeTask == [pc |-> "free", m |-> 0, cancel |-> FALSE, target |-> 0,
             aft |-> {}, afc |-> {}]

FreeWs == [pc |-> "free", serial |-> "dev1", endpoint |-> "stream",
           client_state |-> "CONNECTING"]

\* A websocket whose handler has ended.
ClosedWs == [FreeWs EXCEPT !.pc = "closed", !.client_state = "DISCONNECTED"]

IdleBroadcast == [pc |-> "idle", serial |-> "dev1", idx |-> 0, used |-> 0,
                  disconnected |-> {}, sent |-> {}, orphan |-> FALSE,
                  churn |-> FALSE, res |-> "none"]

\* Task.done() of a relay task.
TaskOver(t) == t.pc \in {"done", "cancelled"}

\* ---- the event loop's ready queue
\* The loop runs what is ready before it polls for I/O, so the completion
\* of an I/O operation never overtakes a step that was ready when the
\* operation began.  Ready are: a task's first step, a task whose
\* cancellation is being delivered, a coroutine whose awaited task is over.
\* A coroutine entering an I/O await (deploy, shell, the closes gathered by
\* shutdown) records the ready tasks (aft) and callers (afc) of that moment; each is struck out when
\* it runs, and the I/O completes only once none is left.
ReadyTasks(tk) ==
    {t \in TaskIds :
        \/ tk[t].pc = "new"
        \/ tk[t].pc = "shell" /\ tk[t].cancel
        \/ tk[t].pc = "selfwait"
        \/ tk[t].pc = "wait" /\ TaskOver(tk[tk[t].target])}

ReadyCallers(tk) ==
    {c \in Clients : cl[c].pc \in {"start_cleanup", "stop_cleanup"}
                      /\ TaskOver(tk[cl[c].wait])}

\* Task t has run: it is struck out of every record.
RanTask(x, t) == [i \in DOMAIN x |-> [x[i] EXCEPT !.aft = @ \ {t}]]

\* Caller c has run.
RanCaller(x, c) == [i \in DOMAIN x |-> [x[i] EXCEPT !.afc = @ \ {c}]]

\* Nothing that was ready when the I/O of record r began is still waiting.
IOMayComplete(r) == r.aft = {} /\ r.afc = {}

\* The module singletons right after import: an empty registry
\* (ADBDeviceManager.__init__), no stream (active_streams = {}).
InitRegistry ==
    /\ conns = [k \in ConnIds |-> FreeConnection]
    /\ connections = <<>>
    /\ devices = [s \in Serials |-> 0]
    /\ polling_task = "none"
    /\ running = FALSE
    /\ poll = IdlePoll
    /\ shut = IdleShut
    /\ cl = [c \in Clients |-> IdleClient]
    /\ mgr = [m \in MgrIds |-> FreeManager]
    /\ task = [t \in TaskIds |-> FreeTask]
    /\ active_streams = [s \in Serials |-> 0]
    /\ active_connections = [s \in {} |-> {}]
    /\ ws = [w \in WsIds |-> FreeWs]
    /\ bc = [i \in BcIds |-> IdleBroadcast]
    /\ got = [w \in WsIds |-> <<>>]
    /\ pend = [w \in WsIds |-> <<>>]
    /\ connection = NewADBConnection
    /\ now = 1
    /\ transport = "none"
    /\ server_file = [local |-> TRUE, device |-> FALSE]

\* -------------------------------- ADBDeviceManager.disconnect_from_device
\* The registry state the operation works on, as one record.
RegState == [connections |-> connections, devices |-> devices, conns |-> conns]

\* disconnect_from_device up to its first await.  With no connection stored
\* only the session is dropped.  A stored connection that holds a transport
\* handle suspends in close(); one without a handle is marked disconnected
\* and removed at once.
DFDStart(st, s) ==
    LET k == ConnGet(st.connections, s) IN
    IF k = 0
    THEN [st |-> [st EXCEPT !.devices[s] = 0], susp |-> FALSE, k |-> 0]
    ELSE IF st.conns[k].device
    THEN [st |-> st, susp |-> TRUE, k |-> k]
    ELSE [st |-> [connections |-> ConnDel(st.connections, s),
                  devices |-> [st.devices EXCEPT ![s] = 0],
                  conns |-> [st.conns EXCEPT ![k].connected = FALSE]],
          susp |-> FALSE, k |-> k]

\* A mutation of disconnect_from_device: the session is left behind when
\* the connection is removed.
DFDResumeKeepsSession(st, s, k, ok) ==
    IF ~ok
    THEN [st |-> st, raised |-> TRUE]
    ELSE [st |-> [st EXCEPT !.connections = ConnDel(st.connections, s),
                            !.conns[k] = DisconnectDone(st.conns[k])],
          raised |-> ConnGet(st.connections, s) = 0]

\* disconnect_from_device resumed after close(): a close() that raised is
\* re-raised by ADBConnection.disconnect and leaves the registry untouched;
\* otherwise the connection is cleared and `del self._connections[serial]`
\* runs, which raises KeyError when the key has gone meanwhile.
DFDResume(st, s, k, ok) ==
    IF ~ok
    THEN [st |-> st, raised |-> TRUE]
    ELSE LET c1 == [st.conns EXCEPT ![k] = DisconnectDone(st.conns[k])] IN
         IF ConnGet(st.connections, s) = 0
         THEN [st |-> [st EXCEPT !.conns = c1], raised |-> TRUE]
         ELSE [st |-> [connections |-> ConnDel(st.connections, s),
                       devices |-> [st.devices EXCEPT ![s] = 0],
                       conns |-> c1],
               raised |-> FALSE]

SetReg(st) ==
    /\ connections' = st.connections
    /\ devices' = st.devices
    /\ conns' = st.conns

\* ------------------------------------ ADBDeviceManager.connect_to_device
FreeConns == {k \in ConnIds : ~conns[k].alloc}

\* Whether connect_to_device returns the stored connection at once.
AlreadyConnected(s) ==
    ConnGet(connections, s) # 0 /\ is_connected(conns[ConnGet(connections, s)])

\* A mutation of the store of connect_to_device: the connection is stored
\* before the info query has answered.
PublishEarly(st, s, k, ok) ==
    [st EXCEPT !.connections = ConnPut(st.connections, s, k),
               !.devices[s] = IF ok THEN k ELSE st.devices[s]]

\* What connect_to_device writes when the info query returns: the
\* connection and the session once it succeeded, nothing when it raised
\* (the exception leaves the function before the two stores).
Publish(st, s, k, ok) ==
    IF ok
    THEN [st EXCEPT !.connections = ConnPut(st.connections, s, k), !.devices[s] = k]
    ELSE st

\* connect_to_device up to its first await: either the stored connection
\* is returned, or a new ADBConnection is constructed and its connect()
\* suspends in the transport handshake.
ConnectBegin(c, s) ==
    /\ polling_task # "none"
    /\ shut.pc = "idle"
    /\ cl[c].pc = "idle"
    /\ IF AlreadyConnected(s)
       THEN /\ cl' = [cl EXCEPT ![c] = Returned("ok", ConnGet(connections, s))]
            /\ UNCHANGED conns
       ELSE /\ FreeConns # {}
            /\ LET k == CHOOSE x \in FreeConns : \A y \in FreeConns : x <= y IN
               /\ conns' = [conns EXCEPT ![k] = [NewConnection(s) EXCEPT !.device = TRUE]]
               /\ cl' = [cl EXCEPT ![c] = [IdleClient EXCEPT
                                             !.op = "connect", !.pc = "handshake",
                                             !.serial = s, !.conn = k]]
    /\ UNCHANGED <<connections, devices, polling_task, running, poll, shut, mgrVars, fanVars, linkVars>>

\* The handshake returns: on success get_device_info suspends in its first
\* shell command; on failure connect() clears connected and re-raises.
ConnectHandshake(c, ok) ==
    /\ cl[c].pc = "handshake"
    /\ conns' = [conns EXCEPT ![cl[c].conn] = ConnectDone(conns[cl[c].conn], ok)]
    /\ cl' = [cl EXCEPT ![c] = IF ok THEN [cl[c] EXCEPT !.pc = "info"]
                                      ELSE Returned("raised", 0)]
    /\ UNCHANGED <<connections, devices, polling_task, running, poll, shut, mgrVars, fanVars, linkVars>>

\* The info query returns: on success the connection and the session are
\* stored and the connection returned; on failure the error propagates.
ConnectInfo(c, ok) ==
    /\ cl[c].pc = "info"
    /\ SetReg(Publish(RegState, cl[c].serial, cl[c].conn, ok))
    /\ cl' = [cl EXCEPT ![c] = IF ok THEN Returned("ok", cl[c].conn)
                                      ELSE Returned("raised", 0)]
    /\ UNCHANGED <<polling_task, running, poll, shut, mgrVars, fanVars, linkVars>>

\* ------------------------- a caller of disconnect_from_device(serial)
DisconnectBegin(c, s) ==
    /\ polling_task # "none"
    /\ shut.pc = "idle"
    /\ cl[c].pc = "idle"
    /\ LET d == DFDStart(RegState, s) IN
       /\ SetReg(d.st)
       /\ cl' = [cl EXCEPT ![c] =
                    IF d.susp
                    THEN [IdleClient EXCEPT !.op = "disconnect", !.pc = "close",
                                            !.serial = s, !.conn = d.k]
                    ELSE Returned("ok", 0)]
    /\ UNCHANGED <<polling_task, running, poll, shut, mgrVars, fanVars, linkVars>>

DisconnectClose(c, ok) ==
    /\ cl[c].pc = "close"
    /\ LET r == DFDResume(RegState, cl[c].serial, cl[c].conn, ok) IN
       /\ SetReg(r.st)
       /\ cl' = [cl EXCEPT ![c] = Returned(IF r.raised THEN "raised" ELSE "ok", 0)]
    /\ UNCHANGED <<polling_task, running, poll, shut, mgrVars, fanVars, linkVars>>

\* ------------------------------------------------ the health loop task
\* ADBDeviceManager.initialize(), called by the lifespan before requests
\* are served: the registry is still empty, so its first poll_devices()
\* has nothing to check and _start_polling() creates the poll_loop task.
Initialize ==
    /\ polling_task = "none"
    /\ polling_task' = "alive"
    /\ running' = TRUE
    /\ poll' = [IdlePoll EXCEPT !.pc = "start"]
    /\ UNCHANGED <<conns, connections, devices, shut, cl, mgrVars, fanVars, linkVars>>

\* The health_check() of one connection up to its await: False at once
\* when the connection is not connected, else pending on the ping.
HealthStart(c) == IF is_connected(c) THEN "pending" ELSE "false"

\* A mutation of the eviction test: every checked device is evicted.
UnhealthyAny(r) == r # "none"

\* Whether poll_devices evicts a device given its health result.
Unhealthy(r) == r = "false"

\* The eviction loop of poll_devices from index i on, run until it suspends
\* in a close(), or ends (then the loop sleeps).
RECURSIVE EvictLoop(_, _, _, _)
EvictLoop(i, st, snap, results) ==
    IF i > Len(snap)
    THEN [st |-> st, pc |-> "sleep", idx |-> 0, k |-> 0]
    ELSE IF Unhealthy(results[snap[i][1]])
    THEN LET d == DFDStart(st, snap[i][1]) IN
         IF d.susp
         THEN [st |-> d.st, pc |-> "close", idx |-> i, k |-> d.k]
         ELSE EvictLoop(i + 1, d.st, snap, results)
    ELSE EvictLoop(i + 1, st, snap, results)

\* poll_loop wakes (first run, or after a sleep) and starts a cycle:
\* poll_devices builds health_tasks over the connections stored now and
\* awaits their gather.  With nothing stored the cycle is over at once.
PollBegin ==
    /\ poll.pc \in {"start", "sleep"}
    /\ ~poll.cancel
    /\ IF ~running
       THEN /\ poll' = [poll EXCEPT !.pc = "done"]
            /\ polling_task' = "done"
       ELSE /\ poll' = [pc |-> IF connections = <<>> THEN "sleep" ELSE "gather",
                        snap |-> connections,
                        results |-> [s \in Serials |->
                            IF s \in ConnKeys(connections)
                            THEN HealthStart(conns[ConnGet(connections, s)])
                            ELSE "none"],
                        idx |-> 0, k |-> 0, cancel |-> FALSE]
            /\ UNCHANGED polling_task
    /\ UNCHANGED <<conns, connections, devices, running, shut, cl, mgrVars, fanVars, linkVars>>

PendingSerials == {s \in Serials : poll.results[s] = "pending"}

\* The gather returns: every pending ping has answered (out[s] tells how),
\* and the eviction loop runs up to its first await.
PollJoin(out) ==
    /\ poll.pc = "gather"
    /\ ~poll.cancel
    /\ LET res == [s \in Serials |->
                     IF s \in PendingSerials THEN out[s] ELSE poll.results[s]]
           e == EvictLoop(1, RegState, poll.snap, res)
       IN /\ SetReg(e.st)
          /\ poll' = [poll EXCEPT !.pc = e.pc, !.results = res, !.idx = e.idx, !.k = e.k,
                                  !.snap = IF e.pc = "sleep" THEN <<>> ELSE poll.snap]
    /\ UNCHANGED <<polling_task, running, shut, cl, mgrVars, fanVars, linkVars>>

\* PollCloseDone with a poll_loop that does not survive a failed cycle.
PollCloseDoneEndsLoop(ok) ==
    /\ poll.pc = "close"
    /\ ~poll.cancel
    /\ LET r == DFDResume(RegState, poll.snap[poll.idx][1], poll.k, ok)
           e == IF r.raised
                THEN [st |-> r.st, pc |-> "done", idx |-> 0, k |-> 0]
                ELSE EvictLoop(poll.idx + 1, r.st, poll.snap, poll.results)
       IN /\ SetReg(e.st)
          /\ poll' = [poll EXCEPT !.pc = e.pc, !.idx = e.idx, !.k = e.k,
                                  !.snap = IF e.pc = "sleep" THEN <<>> ELSE poll.snap]
          /\ polling_task' = IF e.pc = "done" THEN "done" ELSE polling_task
    /\ UNCHANGED <<running, shut, cl, mgrVars, fanVars, linkVars>>

\* The close() awaited by an eviction returns.  An exception leaves the
\* loop: poll_devices catches and logs it and the cycle is over.
PollCloseDone(ok) ==
    /\ poll.pc = "close"
    /\ ~poll.cancel
    /\ LET r == DFDResume(RegState, poll.snap[poll.idx][1], poll.k, ok)
           e == IF r.raised
                THEN [st |-> r.st, pc |-> "sleep", idx |-> 0, k |-> 0]
                ELSE EvictLoop(poll.idx + 1, r.st, poll.snap, poll.results)
       IN /\ SetReg(e.st)
          /\ poll' = [poll EXCEPT !.pc = e.pc, !.idx = e.idx, !.k = e.k,
                                  !.snap = IF e.pc = "sleep" THEN <<>> ELSE poll.snap]
    /\ UNCHANGED <<polling_task, running, shut, cl, mgrVars, fanVars, linkVars>>

\* The cancellation requested by shutdown() reaches the task at its await:
\* CancelledError is no Exception, so it leaves poll_devices and is caught
\* by poll_loop, which breaks.
PollCancelled ==
    /\ poll.cancel
    /\ poll.pc \in {"start", "sleep", "gather", "close"}
    /\ poll' = [IdlePoll EXCEPT !.pc = "done", !.cancel = TRUE]
    /\ polling_task' = "done"
    /\ UNCHANGED <<conns, connections, devices, running, shut, cl, mgrVars, fanVars, linkVars>>

\* ------------------------------------------- ADBDeviceManager.shutdown
\* shutdown() up to its first await: the flag is cleared, the polling task
\* is cancelled and awaited.
ShutdownStart ==
    /\ shut.pc = "idle"
    /\ polling_task # "none"
    /\ running' = FALSE
    /\ poll' = [poll EXCEPT !.cancel = (polling_task = "alive")]
    /\ shut' = [shut EXCEPT !.pc = "await_poll"]
    /\ UNCHANGED <<conns, connections, devices, polling_task, mgrVars, fanVars, linkVars>>

\* shutdown() called while callers of the registry may be in flight.
ShutdownBegin ==
    /\ ShutdownStart
    /\ UNCHANGED cl

StoredConns == {connections[i][2] : i \in 1 .. Len(connections)}

\* The polling task has ended: one disconnect() per stored connection is
\* gathered.  A connection without a handle is only marked disconnected.
ShutdownDisconnectAll ==
    /\ shut.pc = "await_poll"
    /\ polling_task = "done"
    /\ IF StoredConns = {}
       THEN /\ shut' = [shut EXCEPT !.pc = "done"]
            /\ devices' = [s \in Serials |-> 0]
            /\ UNCHANGED <<conns, connections>>
       ELSE /\ shut' = [pc |-> "gather", snap |-> StoredConns,
                        pending |-> {k \in StoredConns : conns[k].device},
                        aft |-> ReadyTasks(task)]
            /\ conns' = [k \in ConnIds |->
                           IF k \in StoredConns /\ ~conns[k].device
                           THEN [conns[k] EXCEPT !.connected = FALSE]
                           ELSE conns[k]]
            /\ UNCHANGED <<connections, devices>>
    /\ UNCHANGED <<polling_task, running, poll, cl, mgrVars, fanVars, linkVars>>

\* One gathered disconnect() returns from close(); a failure is kept by
\* gather as a result and the connection stays as it was.
ShutdownCloseDone(k, ok) ==
    /\ shut.pc = "gather"
    /\ k \in shut.pending
    /\ shut.aft = {}
    /\ conns' = [conns EXCEPT ![k] = IF ok THEN DisconnectDone(conns[k]) ELSE conns[k]]
    /\ shut' = [shut EXCEPT !.pending = shut.pending \ {k}]
    /\ UNCHANGED <<connections, devices, polling_task, running, poll, cl, mgrVars, fanVars, linkVars>>

\* The gather returns: both maps are cleared and shutdown() returns.
ShutdownJoin ==
    /\ shut.pc = "gather"
    /\ shut.pending = {}
    /\ connections' = <<>>
    /\ devices' = [s \in Serials |-> 0]
    /\ shut' = [shut EXCEPT !.pc = "done"]
    /\ UNCHANGED <<conns, polling_task, running, poll, cl, mgrVars, fanVars, linkVars>>

\* --------------------------------------------------------- registry spec
NextRegistry ==
    \/ Initialize
    \/ \E c \in Clients, s \in Serials : ConnectBegin(c, s)
    \/ \E c \in Clients, ok \in BOOLEAN : ConnectHandshake(c, ok)
    \/ \E c \in Clients, ok \in BOOLEAN : ConnectInfo(c, ok)
    \/ \E c \in Clients, s \in Serials : DisconnectBegin(c, s)
    \/ \E c \in Clients, ok \in BOOLEAN : DisconnectClose(c, ok)
    \/ PollBegin
    \/ \E out \in [Serials -> {"true", "false"}] : PollJoin(out)
    \/ \E ok \in BOOLEAN : PollCloseDone(ok)
    \/ PollCancelled
    \/ ShutdownBegin
    \/ ShutdownDisconnectAll
    \/ \E k \in ConnIds, ok \in BOOLEAN : ShutdownCloseDone(k, ok)
    \/ ShutdownJoin

SpecRegistry == InitRegistry /\ [][NextRegistry]_vars

\* --------------------------------- initialize() after shutdown() returned
\* _start_polling as initialize() runs it: `if self._polling_task: return`
\* comes first, and shutdown() leaves the finished task in _polling_task,
\* so only a registry that never had a task gets one and has _running set.
start_polling ==
    IF polling_task # "none"
    THEN [polling_task |-> polling_task, running |-> running, poll |-> poll]
    ELSE [polling_task |-> "alive", running |-> TRUE,
          poll |-> [IdlePoll EXCEPT !.pc = "start"]]

\* initialize() is called again on a registry whose shutdown() has returned
\* and whose maps are empty: its poll_devices() has nothing to check (the
\* gather of nothing does not suspend) and _start_polling() follows.  The
\* registry takes calls again.
Reinitialize ==
    /\ shut.pc = "done"
    /\ connections = <<>>
    /\ polling_task' = start_polling.polling_task
    /\ running' = start_polling.running
    /\ poll' = start_polling.poll
    /\ shut' = IdleShut
    /\ UNCHANGED <<conns, connections, devices, cl, mgrVars, fanVars, linkVars>>

\* The registry with initialize() called again after a shutdown().
NextRestart ==
    \/ Initialize
    \/ \E c \in Clients, s \in Serials : ConnectBegin(c, s)
    \/ \E c \in Clients, ok \in BOOLEAN : ConnectHandshake(c, ok)
    \/ \E c \in Clients, ok \in BOOLEAN : ConnectInfo(c, ok)
    \/ \E c \in Clients, s \in Serials : DisconnectBegin(c, s)
    \/ \E c \in Clients, ok \in BOOLEAN : DisconnectClose(c, ok)
    \/ PollBegin
    \/ \E out \in [Serials -> {"true", "false"}] : PollJoin(out)
    \/ \E ok \in BOOLEAN : PollCloseDone(ok)
    \/ PollCancelled
    \/ ShutdownBegin
    \/ ShutdownDisconnectAll
    \/ \E k \in ConnIds, ok \in BOOLEAN : ShutdownCloseDone(k, ok)
    \/ ShutdownJoin
    \/ Reinitialize

SpecRestart == InitRegistry /\ [][NextRestart]_vars

\* =============================================== ScrcpyProcessManager
FreeMgrs == {m \in MgrIds : ~mgr[m].alloc}
FreeTasks == {t \in TaskIds : task[t].pc = "free"}

\* ScrcpyProcessManager.__init__
NewManager(k, cfg) == [alloc |-> TRUE, conn |-> k, config |-> cfg, state |-> "Stopped",
                       start_time |-> 0, error |-> "none", process_task |-> 0,
                       trail |-> <<"Stopped">>]

\* The last n elements of a sequence.
LastN(q, n) == IF Len(q) <= n THEN q ELSE SubSeq(q, Len(q) - n + 1, Len(q))

\* `self.state = s`.  trail records the values the field has held, the
\* latest TrailLen of them: a value is appended when the assignment changes
\* the field.
SetState(mg, m, s) ==
    [mg EXCEPT ![m].state = s,
               ![m].trail = IF mg[m].state = s THEN @
                            ELSE LastN(Append(@, s), TrailLen)]

\* ScrcpyProcessManager.is_running
is_running(x) == x.state = "Running"

\* ScrcpyProcessManager.get_status
get_status(x) == [state |-> x.state, config |-> x.config,
                  start_time |-> x.start_time, error |-> x.error]

\* _cleanup up to its await: with a task stored, the task is cancelled and
\* awaited (wait names it); a task that is over already is awaited without
\* suspending, and the handle is dropped at once.
Cleanup(mg, tk, m) ==
    LET t == mg[m].process_task IN
    IF t = 0
    THEN [mgr |-> mg, task |-> tk, wait |-> 0]
    ELSE IF TaskOver(tk[t])
    THEN [mgr |-> [mg EXCEPT ![m].process_task = 0], task |-> tk, wait |-> 0]
    ELSE [mgr |-> mg, task |-> [tk EXCEPT ![t].cancel = TRUE], wait |-> t]

\* _cleanup after its await: `self._process_task = None`, whatever the
\* field holds by then.
CleanupEnd(mg, m) == [mg EXCEPT ![m].process_task = 0]

\* What deploy() raises: every Exception inside it leaves as a
\* ScrcpyDeployError; the message stands for str(e).
DeployError == [kind |-> "ScrcpyDeployError", message |-> "deploy"]

\* A mutation of the end of start()'s except branch: the exception caught
\* is re-raised as it is.
StartErrorAsCaught(e) == e

\* The end of start()'s except branch: a ScrcpyStartError is re-raised,
\* anything else leaves as a ScrcpyStartError carrying str(e).
StartError(e) ==
    IF e.kind = "ScrcpyStartError" THEN e
    ELSE [kind |-> "ScrcpyStartError", message |-> e.message]

\* The except branch of start(): Error and the message are recorded, then
\* cleanup runs; the error is re-raised once cleanup is through.
StartFail(mg, tk, m) ==
    LET c == Cleanup([SetState(mg, m, "Error") EXCEPT ![m].error = DeployError.message],
                     tk, m) IN
    [mgr |-> c.mgr, task |-> c.task, wait |-> c.wait,
     pc |-> IF c.wait = 0 THEN "return" ELSE "start_cleanup",
     res |-> IF c.wait = 0 THEN "raised" ELSE "none", err |-> DeployError]

\* A mutation of start(): the Running check is gone.
StartCallUnguarded(mg, tk, m, fail) ==
    LET m1 == [SetState(mg, m, "Starting") EXCEPT ![m].error = "none"] IN
    IF fail \/ ~is_connected(conns[mg[m].conn])
    THEN StartFail(m1, tk, m)
    ELSE [mgr |-> m1, task |-> tk, wait |-> 0, pc |-> "deploy", res |-> "none",
          err |-> NoError]

\* start() up to its first await.  Running: nothing happens.  Otherwise
\* Starting is entered and the error cleared; deploy() raises at once when
\* the local artifact is missing (fail) or the connection is offline, else
\* it suspends in its first device command.
StartCall(mg, tk, m, fail) ==
    IF mg[m].state = "Running"
    THEN [mgr |-> mg, task |-> tk, wait |-> 0, pc |-> "return", res |-> "ok",
          err |-> NoError]
    ELSE LET m1 == [SetState(mg, m, "Starting") EXCEPT ![m].error = "none"] IN
         IF fail \/ ~is_connected(conns[mg[m].conn])
         THEN StartFail(m1, tk, m)
         ELSE [mgr |-> m1, task |-> tk, wait |-> 0, pc |-> "deploy", res |-> "none",
          err |-> NoError]

\* start() after a successful deploy: _start_process creates the relay task
\* t, then Running and the start time (stamped with t) are recorded.
StartLaunch(mg, tk, m, t) ==
    [mgr |-> [SetState([mg EXCEPT ![m].process_task = t], m, "Running")
                 EXCEPT ![m].start_time = t],
     task |-> [tk EXCEPT ![t] = [FreeTask EXCEPT !.pc = "new", !.m = m]],
     wait |-> 0, pc |-> "return", res |-> "ok", err |-> NoError]

\* A mutation of the end of stop(): the start time is kept.
StopEndKeepsTime(mg, m) == SetState(mg, m, "Stopped")

\* The end of stop(): Stopped, start time cleared.
StopEnd(mg, m) == [SetState(mg, m, "Stopped") EXCEPT ![m].start_time = 0]

\* stop() up to its first await.
StopCall(mg, tk, m) ==
    IF mg[m].state = "Stopped"
    THEN [mgr |-> mg, task |-> tk, wait |-> 0, pc |-> "return", res |-> "ok"]
    ELSE LET c == Cleanup(SetState(mg, m, "Stopping"), tk, m) IN
         IF c.wait = 0
         THEN [mgr |-> StopEnd(c.mgr, m), task |-> c.task, wait |-> 0,
               pc |-> "return", res |-> "ok"]
         ELSE [mgr |-> c.mgr, task |-> c.task, wait |-> c.wait,
               pc |-> "stop_cleanup", res |-> "none"]

\* ------------------------------------------ what follows start() / stop()
\* The manager a frame's start() runs on: the new one in a configuration
\* update, else the frame's manager.
StartMgr(f) == IF f.op = "update" THEN f.m2 ELSE f.m

\* start() has returned (res = "ok") or raised; the caller's frame goes on:
\* start() and restart() return to their caller; start_stream and
\* update_stream_config register the manager, or answer 500.
EndStart(mg, tk, as, f, res) ==
    IF f.op \in {"start", "restart"}
    THEN [mgr |-> mg, task |-> tk, as |-> as,
          f |-> IF res = "ok" THEN Returned(res, 0)
                ELSE [Returned(res, 0) EXCEPT !.err = StartError(f.err)]]
    ELSE IF res = "ok"
    THEN [mgr |-> mg, task |-> tk, as |-> [as EXCEPT ![f.serial] = StartMgr(f)],
          f |-> Returned("200", StartMgr(f))]
    ELSE [mgr |-> mg, task |-> tk, as |-> as, f |-> Returned("500", 0)]

RunStart(mg, tk, as, f, fail) ==
    LET r == StartCall(mg, tk, StartMgr(f), fail) IN
    IF r.pc = "return"
    THEN EndStart(r.mgr, r.task, as, [f EXCEPT !.err = r.err], r.res)
    ELSE [mgr |-> r.mgr, task |-> r.task, as |-> as,
          f |-> [f EXCEPT !.pc = r.pc, !.wait = r.wait, !.err = r.err,
                          !.aft = IF r.pc = "deploy" THEN ReadyTasks(r.task) ELSE {},
                          !.afc = IF r.pc = "deploy" THEN ReadyCallers(r.task) ELSE {}]]

\* stop() has returned; the caller's frame goes on: stop() returns,
\* restart() and update_stream_config call start(), stop_stream deletes
\* the entry (a KeyError becomes a 500).
EndStop(mg, tk, as, f, fail) ==
    IF f.op = "stop"
    THEN [mgr |-> mg, task |-> tk, as |-> as, f |-> Returned("ok", 0)]
    ELSE IF f.op = "stop_stream"
    THEN IF as[f.serial] = 0
         THEN [mgr |-> mg, task |-> tk, as |-> as, f |-> Returned("500", 0)]
         ELSE [mgr |-> mg, task |-> tk, as |-> [as EXCEPT ![f.serial] = 0],
               f |-> Returned("200", 0)]
    ELSE RunStart(mg, tk, as, f, fail)

RunStop(mg, tk, as, f, fail) ==
    LET r == StopCall(mg, tk, f.m) IN
    IF r.pc = "return"
    THEN EndStop(r.mgr, r.task, as, f, fail)
    ELSE [mgr |-> r.mgr, task |-> r.task, as |-> as,
          f |-> [f EXCEPT !.pc = r.pc, !.wait = r.wait]]

SetMgr(c, z) ==
    /\ mgr' = z.mgr
    /\ task' = RanCaller(z.task, c)
    /\ active_streams' = z.as
    /\ cl' = RanCaller([cl EXCEPT ![c] = z.f], c)

\* ------------------------------ callers of one manager's own operations
MgrStart(c, m, fail) ==
    /\ cl[c].pc = "idle"
    /\ mgr[m].alloc
    /\ SetMgr(c, RunStart(mgr, task, active_streams,
                          [IdleClient EXCEPT !.op = "start", !.m = m], fail))
    /\ UNCHANGED <<regVars, fanVars, linkVars>>

MgrStop(c, m) ==
    /\ cl[c].pc = "idle"
    /\ mgr[m].alloc
    /\ SetMgr(c, RunStop(mgr, task, active_streams,
                         [IdleClient EXCEPT !.op = "stop", !.m = m], FALSE))
    /\ UNCHANGED <<regVars, fanVars, linkVars>>

\* restart(): stop() then start() in one coroutine.
MgrRestart(c, m, fail) ==
    /\ cl[c].pc = "idle"
    /\ mgr[m].alloc
    /\ SetMgr(c, RunStop(mgr, task, active_streams,
                         [IdleClient EXCEPT !.op = "restart", !.m = m], fail))
    /\ UNCHANGED <<regVars, fanVars, linkVars>>

\* deploy() returns or raises inside start().
DeployDone(c, ok) ==
    /\ cl[c].pc = "deploy"
    /\ IOMayComplete(cl[c])
    /\ LET m == StartMgr(cl[c]) IN
       IF ok
       THEN /\ FreeTasks # {}
            /\ LET t == CHOOSE x \in FreeTasks : \A y \in FreeTasks : x <= y
                   r == StartLaunch(mgr, task, m, t)
               IN SetMgr(c, EndStart(r.mgr, r.task, active_streams, cl[c], "ok"))
       ELSE LET r == StartFail(mgr, task, m) IN
            IF r.pc = "return"
            THEN SetMgr(c, EndStart(r.mgr, r.task, active_streams,
                                    [cl[c] EXCEPT !.err = r.err], "raised"))
            ELSE SetMgr(c, [mgr |-> r.mgr, task |-> r.task, as |-> active_streams,
                            f |-> [cl[c] EXCEPT !.pc = r.pc, !.wait = r.wait,
                                                !.err = r.err]])
    /\ UNCHANGED <<regVars, fanVars, linkVars>>

\* The task awaited by the cleanup of a failed start() is over: the handle
\* is dropped and the start error re-raised.
StartCleanupDone(c) ==
    /\ cl[c].pc = "start_cleanup"
    /\ TaskOver(task[cl[c].wait])
    /\ SetMgr(c, EndStart(CleanupEnd(mgr, StartMgr(cl[c])), task, active_streams,
                          cl[c], "raised"))
    /\ UNCHANGED <<regVars, fanVars, linkVars>>

\* The task awaited by the cleanup of stop() is over: the handle is
\* dropped, Stopped recorded, and the caller goes on.
StopCleanupDone(c, fail) ==
    /\ cl[c].pc = "stop_cleanup"
    /\ TaskOver(task[cl[c].wait])
    /\ SetMgr(c, EndStop(StopEnd(CleanupEnd(mgr, cl[c].m), cl[c].m), task,
                         active_streams, cl[c], fail))
    /\ UNCHANGED <<regVars, fanVars, linkVars>>

\* ----------------------------------- the relay task (_run_server_process)
\* What _run_server_process does when shell() returns normally: nothing;
\* the coroutine ends and the manager's fields stay as they are.
OnProcessExit(mg, tk, t) ==
    [mgr |-> mg, task |-> [tk EXCEPT ![t].pc = "done"]]

\* _handle_crash, run by task t when shell() raised: Error and the message
\* are recorded, then cleanup runs in the task itself.  The stored task may
\* be t (it cancels and awaits itself: the cancellation is delivered at
\* that await), another task (cancelled and awaited), or none.
HandleCrash(mg, tk, t) ==
    LET m == tk[t].m
        m1 == [SetState(mg, m, "Error") EXCEPT ![m].error = "crash"]
        p == m1[m].process_task
    IN IF p = 0
       THEN [mgr |-> m1, task |-> [tk EXCEPT ![t].pc = "done"]]
       ELSE IF p = t
       THEN [mgr |-> m1, task |-> [tk EXCEPT ![t].pc = "selfwait", ![t].cancel = TRUE]]
       ELSE IF TaskOver(tk[p])
       THEN [mgr |-> CleanupEnd(m1, m), task |-> [tk EXCEPT ![t].pc = "done"]]
       ELSE [mgr |-> m1,
             task |-> [tk EXCEPT ![t].pc = "wait", ![t].target = p, ![p].cancel = TRUE]]

SetTask(t, r) ==
    /\ mgr' = r.mgr
    /\ task' = RanTask(r.task, t)
    /\ cl' = RanTask(cl, t)
    /\ shut' = [shut EXCEPT !.aft = @ \ {t}]

\* The task's first step: shell() raises DeviceOffline at once on a
\* connection that is not connected, else it suspends in the transport.
TaskStart(t) ==
    /\ task[t].pc = "new"
    /\ ~task[t].cancel
    /\ LET r == IF is_connected(conns[mgr[task[t].m].conn])
                THEN [mgr |-> mgr,
                      task |-> [task EXCEPT ![t].pc = "shell",
                                            ![t].aft = ReadyTasks(task),
                                            ![t].afc = ReadyCallers(task)]]
                ELSE HandleCrash(mgr, task, t)
       IN SetTask(t, r)
    /\ UNCHANGED <<conns, connections, devices, polling_task, running, poll,
                   active_streams, fanVars, linkVars>>

\* The remote process fails: shell() raises.
ProcessRaises(t) ==
    /\ task[t].pc = "shell"
    /\ ~task[t].cancel
    /\ IOMayComplete(task[t])
    /\ SetTask(t, HandleCrash(mgr, task, t))
    /\ UNCHANGED <<conns, connections, devices, polling_task, running, poll,
                   active_streams, fanVars, linkVars>>

\* The remote process ends: shell() returns its output.
ProcessReturns(t) ==
    /\ task[t].pc = "shell"
    /\ ~task[t].cancel
    /\ IOMayComplete(task[t])
    /\ SetTask(t, OnProcessExit(mgr, task, t))
    /\ UNCHANGED <<conns, connections, devices, polling_task, running, poll,
                   active_streams, fanVars, linkVars>>

\* A requested cancellation reaches the task before its first step or at
\* its await of shell(): CancelledError is no Exception and ends the task.
TaskCancelled(t) ==
    /\ task[t].pc \in {"new", "shell"}
    /\ task[t].cancel
    /\ SetTask(t, [mgr |-> mgr, task |-> [task EXCEPT ![t].pc = "cancelled",
                                                      ![t].aft = {}, ![t].afc = {}]])
    /\ UNCHANGED <<conns, connections, devices, polling_task, running, poll,
                   active_streams, fanVars, linkVars>>

\* The crash handler resumes from its await: after awaiting itself (the
\* CancelledError is caught) or once the other task is over; the handle
\* is dropped and the task ends.
TaskCleanupDone(t) ==
    /\ \/ task[t].pc = "selfwait"
       \/ task[t].pc = "wait" /\ TaskOver(task[task[t].target])
    /\ SetTask(t, [mgr |-> CleanupEnd(mgr, task[t].m),
                    task |-> [task EXCEPT ![t].pc = "done"]])
    /\ UNCHANGED <<conns, connections, devices, polling_task, running, poll,
                   active_streams, fanVars, linkVars>>

\* A relay task that has been created and is not over.
Alive(t) == task[t].pc \notin {"free", "done", "cancelled"}

\* --------------------------------------------- one manager, its callers
\* A manager constructed over the connected device dev1, as start_stream
\* constructs it: the application has started, dev1 has been connected.
InitManager ==
    /\ conns = [k \in ConnIds |->
                  IF k = 1 THEN [alloc |-> TRUE, serial |-> "dev1", device |-> TRUE,
                                 connected |-> TRUE]
                  ELSE FreeConnection]
    /\ connections = <<<<"dev1", 1>>>>
    /\ devices = [s \in Serials |-> IF s = "dev1" THEN 1 ELSE 0]
    /\ polling_task = "alive"
    /\ running = TRUE
    /\ poll = [IdlePoll EXCEPT !.pc = "sleep"]
    /\ shut = IdleShut
    /\ cl = [c \in Clients |-> IdleClient]
    /\ mgr = [m \in MgrIds |-> IF m = 1 THEN NewManager(1, "default") ELSE FreeManager]
    /\ task = [t \in TaskIds |-> FreeTask]
    /\ active_streams = [s \in Serials |-> 0]
    /\ active_connections = [s \in {} |-> {}]
    /\ ws = [w \in WsIds |-> FreeWs]
    /\ bc = [i \in BcIds |-> IdleBroadcast]
    /\ got = [w \in WsIds |-> <<>>]
    /\ pend = [w \in WsIds |-> <<>>]
    /\ connection = NewADBConnection
    /\ now = 1
    /\ transport = "none"
    /\ server_file = [local |-> TRUE, device |-> FALSE]

NextManager ==
    \/ \E c \in Clients, fail \in BOOLEAN : MgrStart(c, 1, fail)
    \/ \E c \in Clients : MgrStop(c, 1)
    \/ \E c \in Clients, fail \in BOOLEAN : MgrRestart(c, 1, fail)
    \/ \E c \in Clients, ok \in BOOLEAN : DeployDone(c, ok)
    \/ \E c \in Clients : StartCleanupDone(c)
    \/ \E c \in Clients, fail \in BOOLEAN : StopCleanupDone(c, fail)
    \/ \E t \in TaskIds : TaskStart(t)
    \/ \E t \in TaskIds : ProcessRaises(t)
    \/ \E t \in TaskIds : ProcessReturns(t)
    \/ \E t \in TaskIds : TaskCancelled(t)
    \/ \E t \in TaskIds : TaskCleanupDone(t)

SpecManager == InitManager /\ [][NextManager]_vars

\* One manager driven by a single caller: its operations run one after
\* the other, interleaved only with the relay task and the remote process.
NextManagerSeq ==
    \/ \E fail \in BOOLEAN : MgrStart("c1", 1, fail)
    \/ MgrStop("c1", 1)
    \/ \E fail \in BOOLEAN : MgrRestart("c1", 1, fail)
    \/ \E ok \in BOOLEAN : DeployDone("c1", ok)
    \/ StartCleanupDone("c1")
    \/ \E fail \in BOOLEAN : StopCleanupDone("c1", fail)
    \/ \E t \in TaskIds : TaskStart(t)
    \/ \E t \in TaskIds : ProcessRaises(t)
    \/ \E t \in TaskIds : ProcessReturns(t)
    \/ \E t \in TaskIds : TaskCancelled(t)
    \/ \E t \in TaskIds : TaskCleanupDone(t)

SpecManagerSeq == InitManager /\ [][NextManagerSeq]_vars

\* ------------------------------------------- start() under with_timeout
\* A mutation of the cancellation: the cancelled start() goes on to launch.
StartCancelGoesOn(mg, tk, m) ==
    LET free == {t \in TaskIds : tk[t].pc = "free"} IN
    IF free = {} THEN [mgr |-> mg, task |-> tk]
    ELSE LET r == StartLaunch(mg, tk, m, CHOOSE x \in free : \A y \in free : x <= y)
         IN [mgr |-> r.mgr, task |-> r.task]

\* start() when CancelledError is raised at its await of deploy():
\* CancelledError is no Exception, so the except branch does not run and
\* the call is left with every field as it was (state Starting).
StartCancel(mg, tk, m) == [mgr |-> mg, task |-> tk]

\* with_timeout(manager.start(), t) expires while start() is suspended in
\* deploy: wait_for cancels the call, which cancels the awaited deploy,
\* and the caller gets TimeoutError.
StartTimeout(c) ==
    /\ cl[c].pc = "deploy"
    /\ cl[c].op = "start"
    /\ LET r == StartCancel(mgr, task, cl[c].m) IN
       SetMgr(c, [mgr |-> r.mgr, task |-> r.task, as |-> active_streams,
                  f |-> Returned("timeout", 0)])
    /\ UNCHANGED <<regVars, fanVars, linkVars>>

\* One manager driven by a single caller whose start() may time out.
NextCancel ==
    \/ \E fail \in BOOLEAN : MgrStart("c1", 1, fail)
    \/ MgrStop("c1", 1)
    \/ \E fail \in BOOLEAN : MgrRestart("c1", 1, fail)
    \/ \E ok \in BOOLEAN : DeployDone("c1", ok)
    \/ StartTimeout("c1")
    \/ StartCleanupDone("c1")
    \/ \E fail \in BOOLEAN : StopCleanupDone("c1", fail)
    \/ \E t \in TaskIds : TaskStart(t)
    \/ \E t \in TaskIds : ProcessRaises(t)
    \/ \E t \in TaskIds : ProcessReturns(t)
    \/ \E t \in TaskIds : TaskCancelled(t)
    \/ \E t \in TaskIds : TaskCleanupDone(t)

SpecCancel == InitManager /\ [][NextCancel]_vars

\* --------------------- a Running manager whose device the registry drops
\* The connection of manager m has been disconnected by the registry.
Dropped(m) == mgr[m].alloc /\ ~is_connected(conns[mgr[m].conn])

\* One manager over dev1 driven by caller c1 while caller c2 has the
\* registry disconnect dev1.  disconnect_from_device touches the connection
\* and the two maps only: no manager is told.
NextEvict ==
    \/ \E fail \in BOOLEAN : MgrStart("c1", 1, fail)
    \/ MgrStop("c1", 1)
    \/ \E ok \in BOOLEAN : DeployDone("c1", ok)
    \/ StartCleanupDone("c1")
    \/ \E fail \in BOOLEAN : StopCleanupDone("c1", fail)
    \/ \E t \in TaskIds : TaskStart(t)
    \/ \E t \in TaskIds : ProcessRaises(t)
    \/ \E t \in TaskIds : ProcessReturns(t)
    \/ \E t \in TaskIds : TaskCancelled(t)
    \/ \E t \in TaskIds : TaskCleanupDone(t)
    \/ DisconnectBegin("c2", "dev1")
    \/ \E ok \in BOOLEAN : DisconnectClose("c2", ok)

\* The event loop runs every task that is ready, and a command in flight on
\* a connection that has been closed ends (the transport reads with a
\* timeout): it raises or returns.  Nothing obliges a caller to call.
FairEvict ==
    /\ WF_vars(\E t \in TaskIds : TaskStart(t))
    /\ WF_vars(\E t \in TaskIds : TaskCancelled(t))
    /\ WF_vars(\E t \in TaskIds : TaskCleanupDone(t))
    /\ WF_vars(\E t \in TaskIds :
                  /\ task[t].pc = "shell"
                  /\ Dropped(task[t].m)
                  /\ ProcessRaises(t) \/ ProcessReturns(t))
    /\ WF_vars(\E ok \in BOOLEAN : DisconnectClose("c2", ok))

SpecEvict == InitManager /\ [][NextEvict]_vars /\ FairEvict

\* ================================================ api/streaming.py, main.py
\* While requests are served every stored connection is connected: a
\* connection is stored only after its handshake and is removed in the
\* segment that marks it disconnected.  start_stream therefore never takes
\* its reconnect branch.
StoredConnected ==
    shut.pc = "idle" => \A k \in StoredConns : is_connected(conns[k])

LeastFreeMgr == CHOOSE m \in FreeMgrs : \A y \in FreeMgrs : m <= y

\* start_stream(serial) up to its first await.  An untracked serial is
\* answered 404 (the AppError's status); the 409 raised for an active
\* stream is caught by the handler's own `except Exception` and answered
\* 500.  Else a manager is constructed over the stored connection and
\* started; it is registered once start() has returned.
StartStream(c, s, fail) ==
    /\ cl[c].pc = "idle"
    /\ shut.pc = "idle"
    /\ LET k == ConnGet(connections, s) IN
       IF k = 0
       THEN /\ cl' = [cl EXCEPT ![c] = Returned("404", 0)]
            /\ UNCHANGED mgrVars
       ELSE /\ is_connected(conns[k])
            /\ IF active_streams[s] # 0 /\ is_running(mgr[active_streams[s]])
               THEN /\ cl' = [cl EXCEPT ![c] = Returned("500", 0)]
                    /\ UNCHANGED mgrVars
               ELSE /\ FreeMgrs # {}
                    /\ SetMgr(c, RunStart(
                           [mgr EXCEPT ![LeastFreeMgr] = NewManager(k, "default")],
                           task, active_streams,
                           [IdleClient EXCEPT !.op = "start_stream", !.serial = s,
                                              !.m = LeastFreeMgr],
                           fail))
    /\ UNCHANGED <<regVars, fanVars, linkVars>>

\* stop_stream(serial) up to its first await.  The 404 raised for an
\* unknown stream is answered 500 for the same reason.  The entry is
\* deleted after stop() has returned.
StopStream(c, s) ==
    /\ cl[c].pc = "idle"
    /\ shut.pc = "idle"
    /\ IF active_streams[s] = 0
       THEN /\ cl' = [cl EXCEPT ![c] = Returned("500", 0)]
            /\ UNCHANGED mgrVars
       ELSE SetMgr(c, RunStop(mgr, task, active_streams,
                              [IdleClient EXCEPT !.op = "stop_stream", !.serial = s,
                                                 !.m = active_streams[s]],
                              FALSE))
    /\ UNCHANGED <<regVars, fanVars, linkVars>>

\* update_stream_config(serial) up to its first await: a new manager is
\* constructed over the stored connection, the registered one is stopped,
\* then the new one is started and registered.
UpdateStreamConfig(c, s, fail) ==
    /\ cl[c].pc = "idle"
    /\ shut.pc = "idle"
    /\ IF active_streams[s] = 0
       THEN /\ cl' = [cl EXCEPT ![c] = Returned("500", 0)]
            /\ UNCHANGED mgrVars
       ELSE IF ConnGet(connections, s) = 0
       THEN /\ cl' = [cl EXCEPT ![c] = Returned("404", 0)]
            /\ UNCHANGED mgrVars
       ELSE /\ FreeMgrs # {}
            /\ SetMgr(c, RunStop(
                   [mgr EXCEPT ![LeastFreeMgr] =
                        NewManager(ConnGet(connections, s), "updated")],
                   task, active_streams,
                   [IdleClient EXCEPT !.op = "update", !.serial = s,
                                      !.m = active_streams[s], !.m2 = LeastFreeMgr],
                   fail))
    /\ UNCHANGED <<regVars, fanVars, linkVars>>

\* get_stream_status(serial): the registered manager's status, or 404.
GetStreamStatus(c, s) ==
    /\ cl[c].pc = "idle"
    /\ shut.pc = "idle"
    /\ cl' = [cl EXCEPT ![c] = IF active_streams[s] = 0 THEN Returned("404", 0)
                               ELSE Returned("200", active_streams[s])]
    /\ UNCHANGED <<regVars, mgrVars, fanVars, linkVars>>

\* lifespan, after the yield: the server has stopped serving, no request
\* handler is in flight and the responses are gone with their tasks; the
\* only thing awaited is device_manager.shutdown().
LifespanShutdown ==
    /\ \A c \in Clients : cl[c].pc = "idle"
    /\ ShutdownStart
    /\ cl' = [c \in Clients |-> IdleClient]

\* The application after startup with dev1 connected and no stream yet.
InitStream ==
    /\ conns = [k \in ConnIds |->
                  IF k = 1 THEN [alloc |-> TRUE, serial |-> "dev1", device |-> TRUE,
                                 connected |-> TRUE]
                  ELSE FreeConnection]
    /\ connections = <<<<"dev1", 1>>>>
    /\ devices = [s \in Serials |-> IF s = "dev1" THEN 1 ELSE 0]
    /\ polling_task = "alive"
    /\ running = TRUE
    /\ poll = [IdlePoll EXCEPT !.pc = "sleep"]
    /\ shut = IdleShut
    /\ cl = [c \in Clients |-> IdleClient]
    /\ mgr = [m \in MgrIds |-> FreeManager]
    /\ task = [t \in TaskIds |-> FreeTask]
    /\ active_streams = [s \in Serials |-> 0]
    /\ active_connections = [s \in {} |-> {}]
    /\ ws = [w \in WsIds |-> FreeWs]
    /\ bc = [i \in BcIds |-> IdleBroadcast]
    /\ got = [w \in WsIds |-> <<>>]
    /\ pend = [w \in WsIds |-> <<>>]
    /\ connection = NewADBConnection
    /\ now = 1
    /\ transport = "none"
    /\ server_file = [local |-> TRUE, device |-> FALSE]

\* The endpoints, the managers and their relay tasks, and the lifespan's
\* shutdown.  Every manager here is started once, by the handler that
\* constructed it, so the cleanup of a failed start() has no task to await.
NextStream ==
    \/ \E c \in Clients, s \in Serials, fail \in BOOLEAN : StartStream(c, s, fail)
    \/ \E c \in Clients, s \in Serials : StopStream(c, s)
    \/ \E c \in Clients, s \in Serials, fail \in BOOLEAN : UpdateStreamConfig(c, s, fail)
    \/ \E c \in Clients, s \in Serials : GetStreamStatus(c, s)
    \/ \E c \in Clients, ok \in BOOLEAN : DeployDone(c, ok)
    \/ \E c \in Clients, fail \in BOOLEAN : StopCleanupDone(c, fail)
    \/ \E t \in TaskIds : TaskStart(t)
    \/ \E t \in TaskIds : ProcessRaises(t)
    \/ \E t \in TaskIds : ProcessReturns(t)
    \/ \E t \in TaskIds : TaskCancelled(t)
    \/ \E t \in TaskIds : TaskCleanupDone(t)
    \/ PollCancelled
    \/ LifespanShutdown
    \/ ShutdownDisconnectAll
    \/ \E k \in ConnIds, ok \in BOOLEAN : ShutdownCloseDone(k, ok)
    \/ ShutdownJoin

SpecStream == InitStream /\ [][NextStream]_vars

\* ===================================================== ws/router.py
\* A websocket keeps its slot in the hash table of a subscriber set for as
\* long as it is a member, and a set iterator walks the slots in order.  A
\* websocket's identity stands for its slot: a set is walked in increasing
\* identity, and a handler may be given any identity that is not in use.
\* (At most MaxWs websockets are ever added, so the table is never resized.)

\* The set stored for serial s in the dict ac, {} where s is not a key: every
\* read of active_connections[serial] is behind `serial in active_connections`.
Subscribers(ac, s) == IF s \in DOMAIN ac THEN ac[s] ELSE {}

\* The dict ac with the set T stored under the key s.
Stored(ac, s, T) == [x \in DOMAIN ac \cup {s} |-> IF x = s THEN T ELSE ac[x]]

\* A dict in which a set that has become empty keeps its key.
disconnectKeepsKey(ac, s, T) == Stored(ac, s, T)

\* ConnectionManager.disconnect on the dict ac, T being the set of serial s
\* after the discard: `if not self.active_connections[serial]: del ...`.
disconnect(ac, s, T) ==
    IF T = {}
    THEN [x \in DOMAIN ac \ {s} |-> ac[x]]
    ELSE Stored(ac, s, T)

\* len() of the set object a pass iterates.  A set emptied by disconnect()
\* loses its key; a later connect() makes a new object and the iterated
\* one stays empty (orphan).
IteratedSize(b) ==
    IF b.orphan THEN 0 ELSE Cardinality(Subscribers(active_connections, b.serial))

\* The `for websocket in self.active_connections[serial]` loop of
\* send_message / send_binary, run from the iterator's position until a
\* write suspends ("send"), the set is exhausted ("prune") or next()
\* finds the size changed and raises RuntimeError ("raised").  A websocket
\* that is not CONNECTED is noted without a write.
RECURSIVE Iterate(_)
Iterate(b) ==
    IF IteratedSize(b) # b.used
    THEN [b EXCEPT !.pc = "raised"]
    ELSE LET ahead == {w \in Subscribers(active_connections, b.serial) : w > b.idx}
         IN IF ahead = {}
            THEN [b EXCEPT !.pc = "prune"]
            ELSE LET w == CHOOSE x \in ahead : \A y \in ahead : x <= y
                 IN IF ws[w].client_state = "CONNECTED"
                    THEN [b EXCEPT !.pc = "send", !.idx = w]
                    ELSE Iterate([b EXCEPT !.idx = w, !.disconnected = @ \cup {w}])

\* A mutation of the except clause: a failed write ends the loop.
WrittenEndsLoop(b, ok) ==
    IF ok THEN [b EXCEPT !.sent = @ \cup {b.idx}]
    ELSE [b EXCEPT !.disconnected = @ \cup {b.idx}, !.idx = MaxWs]

\* The write to the websocket b.idx returned, or raised and the except
\* clause noted the websocket.
Written(b, ok) ==
    IF ok THEN [b EXCEPT !.sent = @ \cup {b.idx}]
    ELSE [b EXCEPT !.disconnected = @ \cup {b.idx}]

\* A mutation of the removal loop: nothing is removed.
PrunedNothing(S, b) == S

\* The set S after `for websocket in disconnected: await self.disconnect(..)`.
Pruned(S, b) == S \ b.disconnected

\* The call is over with outcome res.
BroadcastOver(b, res) == [IdleBroadcast EXCEPT !.res = res]

\* The subscriber set of serial s changes from S to T: a pass suspended in
\* a write while iterating that set object has seen it change, and is left
\* with an orphan when the set lost its key.
Mutated(b, i, s, S, T) ==
    [j \in BcIds |->
        IF j # i /\ b[j].pc = "send" /\ b[j].serial = s /\ ~b[j].orphan /\ S # T
        THEN [b[j] EXCEPT !.churn = TRUE, !.orphan = (T = {})]
        ELSE b[j]]

\* A write to websocket w by x (a pass, or 0 for the handler) begins: the
\* transport takes the writes of one websocket in the order they are made.
Queued(p, w, x) == [p EXCEPT ![w] = Append(@, x)]

\* What follows the loop of pass i: the noted websockets are removed by
\* disconnect(), which has no await; an exception raised by next() is not
\* caught and ends the call.  p is the write queue as the pass found it.
SetBroadcast(i, b, p) ==
    IF b.pc = "send"
    THEN /\ bc' = [bc EXCEPT ![i] = b]
         /\ pend' = Queued(p, b.idx, i)
         /\ UNCHANGED active_connections
    ELSE IF b.pc = "prune"
    THEN LET S == Subscribers(active_connections, b.serial) IN
         /\ bc' = Mutated([bc EXCEPT ![i] = BroadcastOver(b, "ok")], i, b.serial,
                          S, Pruned(S, b))
         /\ pend' = p
         /\ active_connections' =
                IF Pruned(S, b) = S THEN active_connections
                ELSE disconnect(active_connections, b.serial, Pruned(S, b))
    ELSE /\ bc' = [bc EXCEPT ![i] = BroadcastOver(b, "raised")]
         /\ pend' = p
         /\ UNCHANGED active_connections

\* Pass i has been invoked.
Begun(i) == bc[i].pc # "idle" \/ bc[i].res # "none"

\* send_message (kind "json") or send_binary (kind "binary") is called for
\* serial s: nothing to do without subscribers, else the loop starts.  The
\* two methods differ in the write they make and in nothing else.  The
\* calls are numbered in the order they are made.
BroadcastBegin(i, kind, s) ==
    /\ ~Begun(i)
    /\ \A j \in BcIds : j < i => Begun(j)
    /\ IF s \notin DOMAIN active_connections
       THEN /\ bc' = [bc EXCEPT ![i] = BroadcastOver(IdleBroadcast, "ok")]
            /\ UNCHANGED <<active_connections, pend>>
       ELSE SetBroadcast(i, Iterate([IdleBroadcast EXCEPT
                   !.serial = s, !.used = Cardinality(Subscribers(active_connections, s))]), pend)
    /\ UNCHANGED <<linkVars, regVars, cl, mgrVars, ws, got>>

\* The log of what websocket w was sent, after a write of x returned: a
\* websocket whose handler has ended has no client left to receive.
Delivered(g, w, x) ==
    IF ws[w].pc = "closed" THEN g ELSE [g EXCEPT ![w] = Append(@, x)]

\* The write of pass i returns (the message is delivered) or raises (the
\* websocket is noted); the loop goes on.
BroadcastSendDone(i, ok) ==
    /\ bc[i].pc = "send"
    /\ Head(pend[bc[i].idx]) = i
    /\ got' = IF ok THEN Delivered(got, bc[i].idx, i) ELSE got
    /\ SetBroadcast(i, Iterate(Written(bc[i], ok)),
                    [pend EXCEPT ![bc[i].idx] = Tail(@)])
    /\ UNCHANGED <<linkVars, regVars, cl, mgrVars, ws>>

\* ConnectionManager.connect after accept(): the websocket is added to the
\* serial's set.
Attach(w, s) ==
    /\ active_connections' = Stored(active_connections, s,
                                     Subscribers(active_connections, s) \cup {w})
    /\ bc' = Mutated(bc, 0, s, Subscribers(active_connections, s),
                     Subscribers(active_connections, s) \cup {w})

\* ConnectionManager.disconnect: the websocket is discarded and an empty
\* set loses its key.
Detach(w, s) ==
    /\ active_connections' =
           IF s \in DOMAIN active_connections
           THEN disconnect(active_connections, s, active_connections[s] \ {w})
           ELSE active_connections
    /\ bc' = Mutated(bc, 0, s, Subscribers(active_connections, s),
                     Subscribers(active_connections, s) \ {w})

FreeWsIds == {w \in WsIds : ws[w].pc = "free"}

\* A client opens /stream/{serial} or /control/{serial}: the handler
\* calls manager.connect, which awaits accept().
WsOpen(w, s, ep) ==
    /\ w \in FreeWsIds
    /\ ws' = [ws EXCEPT ![w] = [pc |-> "accept", serial |-> s, endpoint |-> ep,
                                client_state |-> "CONNECTING"]]
    /\ UNCHANGED <<linkVars, regVars, cl, mgrVars, active_connections, bc, got, pend>>

\* accept() returns: the websocket is registered; the stream endpoint then
\* sends the device information (no await lies between the registration
\* and that write), the control endpoint starts receiving.  accept()
\* raising ends the handler before anything is registered.
WsAccepted(w, ok) ==
    /\ ws[w].pc = "accept"
    /\ IF ok
       THEN /\ ws' = [ws EXCEPT ![w].client_state = "CONNECTED",
                                ![w].pc = IF ws[w].endpoint = "stream" THEN "info"
                                          ELSE "recv"]
            /\ pend' = IF ws[w].endpoint = "stream" THEN Queued(pend, w, 0) ELSE pend
            /\ Attach(w, ws[w].serial)
       ELSE /\ ws' = [ws EXCEPT ![w] = ClosedWs]
            /\ UNCHANGED <<active_connections, bc, pend>>
    /\ UNCHANGED <<linkVars, regVars, cl, mgrVars, got>>

\* The handler's own write (device information, echo, acknowledgement or
\* error report) returns or raises.  A raise outside the receive loop's
\* try, or in the error report itself, reaches the finally clause:
\* manager.disconnect runs and the handler ends.  The stream endpoint
\* leaves its loop after an error report, the control endpoint goes on.
\* Of the handler's writes the log keeps the device information (0).
WsWriteDone(w, ok) ==
    /\ ws[w].pc \in {"info", "reply", "report"}
    /\ Head(pend[w]) = 0
    /\ LET next == IF ok
                   THEN IF ws[w].pc = "report" /\ ws[w].endpoint = "stream"
                        THEN "closed" ELSE "recv"
                   ELSE IF ws[w].pc = "reply" THEN "report" ELSE "closed"
           p == [pend EXCEPT ![w] = Tail(@)]
       IN /\ ws' = [ws EXCEPT ![w] = IF next = "closed" THEN ClosedWs
                                        ELSE [@ EXCEPT !.pc = next]]
          /\ pend' = IF next = "report" THEN Queued(p, w, 0) ELSE p
          /\ got' = IF next = "closed" THEN [got EXCEPT ![w] = <<>>]
                    ELSE IF ok /\ ws[w].pc = "info" THEN [got EXCEPT ![w] = Append(@, 0)]
                    ELSE got
          /\ IF next = "closed"
             THEN Detach(w, ws[w].serial)
             ELSE UNCHANGED <<active_connections, bc>>
    /\ UNCHANGED <<linkVars, regVars, cl, mgrVars>>

\* receive returns a message: the handler answers it.
WsReceive(w) ==
    /\ ws[w].pc = "recv"
    /\ ws' = [ws EXCEPT ![w].pc = "reply"]
    /\ pend' = Queued(pend, w, 0)
    /\ UNCHANGED <<linkVars, regVars, cl, mgrVars, active_connections, bc, got>>

\* receive raises WebSocketDisconnect: the client is gone, the loop is
\* left and the finally clause detaches the websocket.
WsDisconnected(w) ==
    /\ ws[w].pc = "recv"
    /\ ws' = [ws EXCEPT ![w] = ClosedWs]
    /\ got' = [got EXCEPT ![w] = <<>>]
    /\ Detach(w, ws[w].serial)
    /\ UNCHANGED <<linkVars, regVars, cl, mgrVars, pend>>

\* The router alone: websocket handlers and broadcasters.
InitFanout ==
    /\ conns = [k \in ConnIds |-> FreeConnection]
    /\ connections = <<>>
    /\ devices = [s \in Serials |-> 0]
    /\ polling_task = "none"
    /\ running = FALSE
    /\ poll = IdlePoll
    /\ shut = IdleShut
    /\ cl = [c \in Clients |-> IdleClient]
    /\ mgr = [m \in MgrIds |-> FreeManager]
    /\ task = [t \in TaskIds |-> FreeTask]
    /\ active_streams = [s \in Serials |-> 0]
    /\ active_connections = [s \in {} |-> {}]
    /\ ws = [w \in WsIds |-> FreeWs]
    /\ bc = [i \in BcIds |-> IdleBroadcast]
    /\ got = [w \in WsIds |-> <<>>]
    /\ pend = [w \in WsIds |-> <<>>]
    /\ connection = NewADBConnection
    /\ now = 1
    /\ transport = "none"
    /\ server_file = [local |-> TRUE, device |-> FALSE]

\* The router with all that its handlers do; a broadcast call may be made
\* while an earlier one is suspended in a write.
NextFanout ==
    \/ \E w \in WsIds, s \in Serials, ep \in {"stream", "control"} : WsOpen(w, s, ep)
    \/ \E w \in WsIds, ok \in BOOLEAN : WsAccepted(w, ok)
    \/ \E w \in WsIds, ok \in BOOLEAN : WsWriteDone(w, ok)
    \/ \E w \in WsIds : WsReceive(w)
    \/ \E w \in WsIds : WsDisconnected(w)
    \/ \E i \in BcIds, kind \in {"json", "binary"}, s \in Serials :
          BroadcastBegin(i, kind, s)
    \/ \E i \in BcIds, ok \in BOOLEAN : BroadcastSendDone(i, ok)

SpecFanout == InitFanout /\ [][NextFanout]_vars

\* The router while its clients connect and go away without sending
\* anything: the handlers never answer a message.
NextQuiet ==
    \/ \E w \in WsIds, s \in Serials, ep \in {"stream", "control"} : WsOpen(w, s, ep)
    \/ \E w \in WsIds, ok \in BOOLEAN : WsAccepted(w, ok)
    \/ \E w \in WsIds, ok \in BOOLEAN : WsWriteDone(w, ok)
    \/ \E w \in WsIds : WsDisconnected(w)
    \/ \E i \in BcIds, kind \in {"json", "binary"}, s \in Serials :
          BroadcastBegin(i, kind, s)
    \/ \E i \in BcIds, ok \in BOOLEAN : BroadcastSendDone(i, ok)

SpecQuiet == InitFanout /\ [][NextQuiet]_vars

\* ------------------------------------ a subscriber that never takes a write
\* The websocket whose peer has stopped reading: a write to it is never
\* obliged to complete.  It has the first slot, so a pass comes to it first.
Stuck == 1

\* Every write to another websocket completes, by returning or by raising,
\* be it made by a broadcast pass or by the websocket's handler; so does a
\* write to the stuck one once its handler has ended.
FairStuck ==
    /\ WF_vars(\E i \in BcIds, ok \in BOOLEAN :
                  /\ bc[i].pc = "send"
                  /\ bc[i].idx # Stuck \/ ws[Stuck].pc = "closed"
                  /\ BroadcastSendDone(i, ok))
    /\ WF_vars(\E w \in WsIds \ {Stuck}, ok \in BOOLEAN : WsWriteDone(w, ok))

SpecStuck == InitFanout /\ [][NextQuiet]_vars /\ FairStuck

\* ============================== one ADBConnection and ScrcpyServerDeployer
\* One ADBConnection object with the fields its operations read and write,
\* the transport behind it, the server artifact on both sides, and a single
\* caller who runs one operation at a time.  The transport and the device
\* answer truthfully, and any command may fail with a transport error.

\* What the caller's frame records of the world at the moment of the call
\* (IdleClient's `before`).
Snapshot == [last_activity |-> connection.last_activity,
             on_device |-> server_file.device]

\* The exceptions of the transport library: not AppErrors.
TransportError(out) ==
    [kind |-> IF out = "auth" THEN "AuthError" ELSE "TransportError", message |-> out]

DeviceOffline == [kind |-> "ADBDeviceOfflineError", message |-> "offline"]

\* What the transport can answer: the command succeeded and printed the
\* expected word ("yes"), succeeded and printed something else ("no"), or
\* raised.
Replies == {"yes", "no", "transport", "auth"}

\* A call that has raised e.
Raised(e) == [IdleClient EXCEPT !.res = "raised", !.err = e]

\* A mutation of shell / push / pull: the connected check is gone.
shell_unchecked(cn, t) ==
    [conn |-> [cn EXCEPT !.last_activity = t], forwarded |-> TRUE, err |-> NoError]

\* shell(), push() and pull() up to the await of the transport call: an
\* offline connection raises ADBDeviceOfflineError and nothing else
\* happens; else last_activity is stamped and the command goes to the
\* transport.
shell(cn, t) ==
    IF ~is_connected(cn) \/ ~cn.device
    THEN [conn |-> cn, forwarded |-> FALSE, err |-> DeviceOffline]
    ELSE [conn |-> [cn EXCEPT !.last_activity = t], forwarded |-> TRUE, err |-> NoError]

push(cn, t) == shell(cn, t)

pull(cn, t) == shell(cn, t)

\* ------------------------------------------------ ScrcpyServerDeployer
\* A segment of deploy(): the connection as it leaves it, and either the
\* device command it is suspended in (pc) or its outcome.
DeployAwaits(cn, pc) == [conn |-> cn, pc |-> pc, res |-> "none", err |-> NoError]

DeployReturns(cn) == [conn |-> cn, pc |-> "return", res |-> "ok", err |-> NoError]

\* The except branch of deploy(): a ScrcpyDeployError is re-raised,
\* anything else is wrapped into one.
DeployRaises(cn, e) ==
    [conn |-> cn, pc |-> "return", res |-> "raised",
     err |-> IF e.kind = "ScrcpyDeployError" THEN e ELSE DeployError]

\* _push_server: push, then chmod; any exception becomes a
\* ScrcpyDeployError.
PushServer(cn, t) ==
    LET p == push(cn, t) IN
    IF p.forwarded THEN DeployAwaits(p.conn, "push")
    ELSE DeployRaises(p.conn, DeployError)

Chmod(cn, t) ==
    LET s == shell(cn, t) IN
    IF s.forwarded THEN DeployAwaits(s.conn, "chmod")
    ELSE DeployRaises(s.conn, DeployError)

\* A mutation of deploy(): the outcome of the verification is ignored.
VerifiedAlways(out) == TRUE

\* result.strip() == "valid" / == "exists"
Verified(out) == out = "yes"

\* The end of deploy(): `if not verified: raise ScrcpyDeployError`.
DeployVerified(cn, out) ==
    IF Verified(out) THEN DeployReturns(cn) ELSE DeployRaises(cn, DeployError)

\* _verify_deployment's except branch: the existence query again; when
\* that raises too, not verified.
Requery(cn, t) ==
    LET s == shell(cn, t) IN
    IF s.forwarded THEN DeployAwaits(s.conn, "requery")
    ELSE DeployVerified(s.conn, "no")

\* _verify_deployment: the `file` command; when it raises, the fallback.
VerifyDeployment(cn, t) ==
    LET s == shell(cn, t) IN
    IF s.forwarded THEN DeployAwaits(s.conn, "verify")
    ELSE Requery(s.conn, t)

\* deploy() up to its first await: the local artifact must exist; then
\* the existence query, whose exception counts as "not deployed".
DeployCall(cn, sf, t) ==
    IF ~sf.local THEN DeployRaises(cn, DeployError)
    ELSE LET s == shell(cn, t) IN
         IF s.forwarded THEN DeployAwaits(s.conn, "query")
         ELSE PushServer(s.conn, t)

\* deploy() resumed by the answer to the device command it awaits.
DeployResume(cn, pc, out, t) ==
    IF pc = "query"
    THEN IF out = "yes" THEN DeployReturns(cn) ELSE PushServer(cn, t)
    ELSE IF pc = "push"
    THEN IF out = "yes" THEN Chmod(cn, t) ELSE DeployRaises(cn, DeployError)
    ELSE IF pc = "chmod"
    THEN IF out = "yes" THEN VerifyDeployment(cn, t) ELSE DeployRaises(cn, DeployError)
    ELSE IF pc = "verify"
    THEN IF out \in {"yes", "no"} THEN DeployVerified(cn, out) ELSE Requery(cn, t)
    ELSE DeployVerified(cn, IF out = "yes" THEN "yes" ELSE "no")

\* The device command behind each suspension point of deploy().
DeployCommand(pc) ==
    IF pc = "query" \/ pc = "requery" THEN "test"
    ELSE IF pc = "push" THEN "push"
    ELSE IF pc = "chmod" THEN "chmod"
    ELSE IF pc = "verify" THEN "file"
    ELSE "none"

\* What the device may answer to a command: `test -f` tells whether the
\* artifact is there; `file | grep Java` says valid only for an artifact
\* that is there; the other commands succeed or raise.
MayAnswer(cmd, out) ==
    IF out = "auth" THEN cmd = "connect"
    ELSE IF out = "transport" THEN TRUE
    ELSE IF cmd = "test" THEN (out = "yes") = server_file.device
    ELSE IF cmd = "file" THEN out = "no" \/ server_file.device
    ELSE out = "yes"

\* ---------------------------------------------------------------- actions
\* datetime.now() moves on.
Tick ==
    /\ now < MaxClock
    /\ now' = now + 1
    /\ UNCHANGED <<connection, transport, server_file, regVars, cl, mgrVars, fanVars>>

SetFrame(c, f) ==
    /\ cl' = [cl EXCEPT ![c] = f]
    /\ UNCHANGED <<now, regVars, mgrVars, fanVars>>

\* connect() up to the handshake: a new transport handle replaces the old.
Connect(c) ==
    /\ cl[c].pc = "idle"
    /\ connection' = [connection EXCEPT !.device = TRUE]
    /\ transport' = "connect"
    /\ UNCHANGED server_file
    /\ SetFrame(c, [IdleClient EXCEPT !.op = "connect", !.pc = "transport",
                                      !.before = Snapshot])

\* disconnect() up to close(); without a handle it only clears the flag
\* and returns.
Disconnect(c) ==
    /\ cl[c].pc = "idle"
    /\ UNCHANGED server_file
    /\ IF connection.device
       THEN /\ transport' = "close"
            /\ UNCHANGED connection
            /\ SetFrame(c, [IdleClient EXCEPT !.op = "disconnect", !.pc = "transport",
                                              !.before = Snapshot])
       ELSE /\ connection' = [connection EXCEPT !.connected = FALSE]
            /\ UNCHANGED transport
            /\ SetFrame(c, Returned("ok", 0))

\* shell(command), push(...) or pull(...) called on the connection.
Command(c, op) ==
    /\ cl[c].pc = "idle"
    /\ UNCHANGED server_file
    /\ LET s == IF op = "shell" THEN shell(connection, now)
                ELSE IF op = "push" THEN push(connection, now)
                ELSE pull(connection, now)
       IN /\ connection' = s.conn
          /\ IF s.forwarded
             THEN /\ transport' = op
                  /\ SetFrame(c, [IdleClient EXCEPT !.op = op, !.pc = "transport",
                                                    !.before = Snapshot])
             ELSE /\ UNCHANGED transport
                  /\ SetFrame(c, Raised(s.err))

\* The frame of a deploy() segment.
DeployFrame(f, d) ==
    IF d.pc = "return"
    THEN IF d.res = "ok" THEN Returned("ok", 0) ELSE Raised(d.err)
    ELSE [f EXCEPT !.pc = d.pc]

\* ScrcpyServerDeployer.deploy(connection) called.
Deploy(c) ==
    /\ cl[c].pc = "idle"
    /\ UNCHANGED server_file
    /\ LET d == DeployCall(connection, server_file, now) IN
       /\ connection' = d.conn
       /\ transport' = DeployCommand(d.pc)
       /\ SetFrame(c, DeployFrame([IdleClient EXCEPT !.op = "deploy",
                                                     !.before = Snapshot], d))

\* The transport answers the command in flight and the caller goes on.  A
\* push leaves the artifact on the device when it succeeds, and may leave
\* it there (left) when it fails.
TransportDone(c, out, left) ==
    /\ transport # "none"
    /\ cl[c].pc # "idle"
    /\ MayAnswer(transport, out)
    /\ left => (transport = "push" /\ cl[c].op = "deploy" /\ out # "yes")
    /\ server_file' =
          IF transport = "push" /\ cl[c].op = "deploy" /\ (out = "yes" \/ left)
          THEN [server_file EXCEPT !.device = TRUE]
          ELSE server_file
    /\ IF cl[c].op = "connect"
       THEN /\ connection' = IF out = "yes"
                             THEN [connection EXCEPT !.connected = TRUE,
                                                     !.last_activity = now]
                             ELSE [connection EXCEPT !.connected = FALSE]
            /\ transport' = "none"
            /\ SetFrame(c, IF out = "yes" THEN Returned("ok", 0)
                           ELSE Raised(TransportError(out)))
       ELSE IF cl[c].op = "disconnect"
       THEN /\ connection' = IF out = "yes"
                             THEN [connection EXCEPT !.device = FALSE,
                                                     !.connected = FALSE]
                             ELSE connection
            /\ transport' = "none"
            /\ SetFrame(c, IF out = "yes" THEN Returned("ok", 0)
                           ELSE Raised(TransportError(out)))
       ELSE IF cl[c].op = "deploy"
       THEN LET d == DeployResume(connection, cl[c].pc, out, now) IN
            /\ connection' = d.conn
            /\ transport' = DeployCommand(d.pc)
            /\ SetFrame(c, DeployFrame(cl[c], d))
       ELSE /\ UNCHANGED connection
            /\ transport' = "none"
            /\ SetFrame(c, IF out = "yes" THEN Returned("ok", 0)
                           ELSE Raised(TransportError(out)))

\* A connection just constructed, the clock at its first instant, and the
\* artifact present or absent on either side.
InitConnection ==
    /\ conns = [k \in ConnIds |-> FreeConnection]
    /\ connections = <<>>
    /\ devices = [s \in Serials |-> 0]
    /\ polling_task = "none"
    /\ running = FALSE
    /\ poll = IdlePoll
    /\ shut = IdleShut
    /\ cl = [c \in Clients |-> IdleClient]
    /\ mgr = [m \in MgrIds |-> FreeManager]
    /\ task = [t \in TaskIds |-> FreeTask]
    /\ active_streams = [s \in Serials |-> 0]
    /\ active_connections = [s \in {} |-> {}]
    /\ ws = [w \in WsIds |-> FreeWs]
    /\ bc = [i \in BcIds |-> IdleBroadcast]
    /\ got = [w \in WsIds |-> <<>>]
    /\ pend = [w \in WsIds |-> <<>>]
    /\ connection = NewADBConnection
    /\ now = 1
    /\ transport = "none"
    /\ server_file \in [local : BOOLEAN, device : BOOLEAN]

NextConnection ==
    \/ Tick
    \/ Connect("c1")
    \/ Disconnect("c1")
    \/ \E op \in {"shell", "push", "pull"} : Command("c1", op)
    \/ Deploy("c1")
    \/ \E out \in Replies, left \in BOOLEAN : TransportDone("c1", out, left)

SpecConnection == InitConnection /\ [][NextConnection]_vars

\* ============================================================ registry claims

\* C1: when two connect(serial) calls for the same serial overlap, at most
\* one handshake is performed and both callers work on, and obtain, one and
\* the same Connection object: two calls in flight for one serial never hold
\* two different connections.
C1_SingleHandshake ==
    \A a, b \in Clients :
        ( /\ a # b
          /\ cl[a].op = "connect" /\ cl[b].op = "connect"
          /\ cl[a].serial = cl[b].serial
          /\ cl[a].pc \in {"handshake", "info"}
          /\ cl[b].pc \in {"handshake", "info"} )
        => cl[a].conn = cl[b].conn

\* The step that ends a poll cycle: the task goes to sleep from the gather
\* or from an eviction.
PollCycleEnds == poll.pc \in {"gather", "close"} /\ poll'.pc = "sleep"

\* C8: when a poll cycle completes, every device whose health check of
\* that cycle returned false has no session and no stored connection.
C8_UnhealthyEvicted ==
    [][PollCycleEnds =>
         \A s \in Serials :
            poll'.results[s] = "false" =>
               devices'[s] = 0 /\ ConnGet(connections', s) = 0]_vars

C10_FailedConnectPublishesNothing ==
    [][\A c \in Clients :
          ( /\ cl'[c] # cl[c]
            /\ "connect" \in {cl[c].op, cl'[c].op}
            /\ cl'[c].res # "ok" )
          => (connections' = connections /\ devices' = devices)]_vars

\* A connect call has failed in its info query: its connection completed
\* the handshake and is stored nowhere.
C10_Witness ==
    \E c \in Clients, k \in ConnIds :
        /\ cl[c].res = "raised"
        /\ conns[k].alloc /\ conns[k].connected
        /\ \A d \in Clients : cl[d].conn # k /\ cl[d].ret # k
        /\ connections = <<>>
        /\ devices = [s \in Serials |-> 0]
        /\ shut.pc = "idle"

\* The step in which a suspended disconnect_from_device call of c ends.
DisconnectEnds(c) == cl[c].op = "disconnect" /\ cl'[c].pc = "idle"

\* C11: a disconnect(serial) call ends without error, and when it has ended
\* the serial has no session and no stored connection.
C11_DisconnectCompletes ==
    [][\A c \in Clients :
          DisconnectEnds(c) =>
             /\ cl'[c].res = "ok"
             /\ devices'[cl[c].serial] = 0
             /\ get_connection(connections', cl[c].serial) = "DeviceNotFound"]_vars

\* C12: the registry starts empty, and a serial gets a stored connection
\* only in the step in which a connect call for that very serial succeeds;
\* so get_connection fails with DeviceNotFound for every serial for which
\* no connect has succeeded, whatever happens to other serials.
C12_NeverConnectedNotFound ==
    /\ \A s \in Serials : get_connection(connections, s) = "DeviceNotFound"
    /\ [][\A s \in Serials :
             ( /\ get_connection(connections, s) = "DeviceNotFound"
               /\ get_connection(connections', s) = "ok" )
             => \E c \in Clients :
                   /\ cl[c].op = "connect" /\ cl[c].serial = s
                   /\ cl'[c].pc = "idle" /\ cl'[c].res = "ok"]_vars

\* One serial is tracked; a connect for another serial has been tried and
\* has failed in its handshake, and that serial is not found.
C12_Witness ==
    \E s, u \in Serials, k \in ConnIds :
        /\ s # u
        /\ get_connection(connections, s) = "ok"
        /\ conns[k].alloc /\ conns[k].serial = u
        /\ conns[k].device /\ ~conns[k].connected
        /\ \A c \in Clients : cl[c].pc = "idle"
        /\ get_connection(connections, u) = "DeviceNotFound"

\* ============================================================= manager claims

\* The remote process of the Running manager m ends in this step: the
\* relay task t, stored as m's task, leaves its await of shell() without
\* having been cancelled.
ProcessEnds(t) ==
    /\ task[t].pc = "shell" /\ ~task[t].cancel
    /\ task'[t].pc # "shell"
    /\ mgr[task[t].m].state = "Running"
    /\ mgr[task[t].m].process_task = t

\* C4: whenever the remote process of a Running manager ends, by returning
\* or by raising, the relay task itself records Error and the error, and
\* the task does not end before cleanup has dropped the task handle.
C4_ProcessEndDrivesError ==
    [][\A t \in TaskIds :
          /\ ProcessEnds(t) =>
                /\ mgr'[task[t].m].state = "Error"
                /\ mgr'[task[t].m].error # "none"
          /\ (ProcessEnds(t) /\ task'[t].pc = "done") =>
                mgr'[task[t].m].process_task = 0]_vars

\* Cleanup of manager m is in progress: a caller or a relay task is
\* suspended in _cleanup.
CleaningUp(m) ==
    \/ \E c \in Clients :
          \/ cl[c].pc = "start_cleanup" /\ StartMgr(cl[c]) = m
          \/ cl[c].pc = "stop_cleanup" /\ cl[c].m = m
    \/ \E t \in TaskIds : task[t].m = m /\ task[t].pc \in {"selfwait", "wait"}

\* C5: whenever a manager is Stopped or Error and no cleanup is in
\* progress (stop() has returned, cleanup after an error has finished), no
\* relay task started by that manager is alive.
C5_NoRelayOutlivesStop ==
    \A m \in MgrIds :
        (mgr[m].alloc /\ mgr[m].state \in {"Stopped", "Error"} /\ ~CleaningUp(m))
        => \A t \in TaskIds : task[t].m = m => ~Alive(t)

\* C6: a start() call that fails ends with state Error, error set and
\* start_time unset; a stop() call that returns leaves Stopped; a start()
\* call that succeeds leaves error unset.
C6_FailedStart ==
    [][\A c \in Clients :
          /\ (cl[c].op \in {"start", "restart"} /\ cl'[c].res = "raised") =>
                /\ mgr'[cl[c].m].state = "Error"
                /\ mgr'[cl[c].m].error # "none"
                /\ mgr'[cl[c].m].start_time = 0
          /\ (cl[c].op = "stop" /\ cl[c].pc = "stop_cleanup" /\ cl'[c].res = "ok") =>
                mgr'[cl[c].m].state = "Stopped"
          /\ (cl[c].op \in {"start", "restart"} /\ cl[c].pc = "deploy"
                /\ cl'[c].res = "ok") =>
                mgr'[cl[c].m].error = "none"]_vars

\* C13: a start() call on a manager that is Running returns at once without
\* error: the caller is not suspended in deploy, no task is created, and
\* the manager's state, start time, error, configuration and task handle
\* and every relay task are as before.
C13_StartOnRunningIsNoOp ==
    [][\A c \in Clients, m \in MgrIds, fail \in BOOLEAN :
          (is_running(mgr[m]) /\ MgrStart(c, m, fail)) =>
             /\ cl'[c].pc = "idle" /\ cl'[c].res = "ok"
             /\ mgr' = mgr
             /\ task' = task]_vars

\* A manager is Running with its relay task relaying and start time set,
\* while a caller is free to call start() again or has just done so.
C13_Witness ==
    \E c \in Clients, m \in MgrIds :
        /\ mgr[m].alloc /\ is_running(mgr[m])
        /\ mgr[m].start_time # 0
        /\ mgr[m].process_task # 0 /\ task[mgr[m].process_task].pc = "shell"
        /\ cl[c].pc = "idle" /\ cl[c].res = "ok"
        /\ \A d \in Clients : cl[d].pc = "idle"

\* A sequence ends with the sequence s.
EndsWith(q, s) == Len(q) >= Len(s) /\ LastN(q, Len(s)) = s

\* What get_status reports after a completed stop().
ReportsStopped(x) == get_status(x).state = "Stopped" /\ get_status(x).start_time = 0

\* C14: driven by one caller over a connected device, a start() on a
\* freshly created manager whose deploy and launch succeed takes the state
\* field through exactly Stopped, Starting, Running, and a stop() called on
\* a Running manager takes it through exactly Running, Stopping, Stopped,
\* after which the status reports Stopped and no start time.
C14_StartThenStop ==
    [][\A c \in Clients, m \in MgrIds :
          /\ (mgr[m].trail = <<"Stopped">> /\ MgrStart(c, m, FALSE))
                => /\ mgr'[m].trail = <<"Stopped", "Starting">>
                   /\ cl'[c].pc = "deploy"
          /\ ( /\ cl[c].op = "start" /\ cl[c].m = m
               /\ mgr[m].trail = <<"Stopped", "Starting">>
               /\ DeployDone(c, TRUE) )
                => /\ mgr'[m].trail = <<"Stopped", "Starting", "Running">>
                   /\ cl'[c].pc = "idle" /\ cl'[c].res = "ok"
          /\ (is_running(mgr[m]) /\ MgrStop(c, m))
                => \/ /\ EndsWith(mgr'[m].trail, <<"Running", "Stopping">>)
                      /\ cl'[c].pc = "stop_cleanup"
                   \/ /\ EndsWith(mgr'[m].trail, <<"Running", "Stopping", "Stopped">>)
                      /\ cl'[c].pc = "idle" /\ cl'[c].res = "ok"
                      /\ ReportsStopped(mgr'[m])
          /\ ( /\ cl[c].op = "stop" /\ cl[c].m = m
               /\ EndsWith(mgr[m].trail, <<"Running", "Stopping">>)
               /\ StopCleanupDone(c, FALSE) )
                => /\ EndsWith(mgr'[m].trail, <<"Running", "Stopping", "Stopped">>)
                   /\ cl'[c].pc = "idle" /\ cl'[c].res = "ok"
                   /\ ReportsStopped(mgr'[m])]_vars

\* The first start() of a manager succeeded and the stop() that followed
\* has returned.
C14_Witness ==
    \E c \in Clients, m \in MgrIds :
        /\ mgr[m].alloc
        /\ mgr[m].trail = <<"Stopped", "Starting", "Running", "Stopping", "Stopped">>
        /\ ReportsStopped(mgr[m])
        /\ cl[c].pc = "idle" /\ cl[c].res = "ok"

\* C15: under any sequence of start(), stop(), restart() and crashes every
\* change of a manager's state field is one of the edges Stopped->Starting,
\* Starting->Running, Starting->Error, Running->Stopping, Running->Error,
\* Stopping->Stopped, Error->Stopped; Error in particular is only ever
\* followed by Stopped.
C15_OnlyLifecycleEdges ==
    \A m \in MgrIds :
        \A i \in 1 .. (Len(mgr[m].trail) - 1) :
            <<mgr[m].trail[i], mgr[m].trail[i + 1]>> \in
                { <<"Stopped", "Starting">>, <<"Starting", "Running">>,
                  <<"Starting", "Error">>, <<"Running", "Stopping">>,
                  <<"Running", "Error">>, <<"Stopping", "Stopped">>,
                  <<"Error", "Stopped">> }

\* C16: in every reachable state a manager's start time is set only while
\* its state is Running or Stopping; it is unset in Stopped, Starting and
\* Error.
C16_StartTimeOnlyWhileRunning ==
    \A m \in MgrIds :
        mgr[m].start_time # 0 => mgr[m].state \in {"Running", "Stopping"}

\* C30: a start() call that fails raises ScrcpyStartError carrying the
\* message of the failure, whatever deploy raised; and in the step in
\* which the failure is caught (the except branch of start() runs) the
\* manager's error field is set to that same message.
C30_StartFailureKind ==
    [][\A c \in Clients :
          /\ cl'[c].res = "raised"
                => cl'[c].err = [kind |-> "ScrcpyStartError",
                                 message |-> DeployError.message]
          /\ \A m \in MgrIds :
                ( /\ cl[c].pc # "start_cleanup"
                  /\ (cl'[c].res = "raised" \/ cl'[c].pc = "start_cleanup")
                  /\ \/ /\ cl[c].pc = "idle"
                        /\ \E fail \in BOOLEAN : MgrStart(c, m, fail) \/ MgrRestart(c, m, fail)
                     \/ /\ cl[c].pc = "deploy"
                        /\ StartMgr(cl[c]) = m
                        /\ DeployDone(c, FALSE)
                     \/ /\ cl[c].pc = "stop_cleanup"
                        /\ cl[c].m = m
                        /\ \E fail \in BOOLEAN : StopCleanupDone(c, fail) )
                => mgr'[m].error = cl'[c].err.message]_vars

\* A start() that failed after a relay task had crashed has returned: the
\* caller holds a ScrcpyStartError and the manager is in Error with the
\* message of the failed deploy, not of the crash.
C30_Witness ==
    \E c \in Clients, m \in MgrIds :
        /\ cl[c].res = "raised"
        /\ cl[c].err.kind = "ScrcpyStartError"
        /\ mgr[m].state = "Error"
        /\ mgr[m].error = DeployError.message
        /\ Len(mgr[m].trail) >= 4
        /\ EndsWith(mgr[m].trail, <<"Running", "Error", "Starting", "Error">>)

\* ============================================================== stream claims

\* The managers in Running whose connection is for serial s.
RunningFor(s) ==
    {m \in MgrIds : mgr[m].alloc /\ is_running(mgr[m]) /\ conns[mgr[m].conn].serial = s}

\* While a configuration update is starting its new manager, the manager it
\* replaces is not Running and none of its relay tasks is alive.
OldStoppedFirst ==
    \A c \in Clients :
        (cl[c].op = "update" /\ cl[c].pc = "deploy") =>
            /\ ~is_running(mgr[cl[c].m])
            /\ \A t \in TaskIds : task[t].m = cl[c].m => ~Alive(t)

\* C2: at any time at most one manager is Running for a serial, and a
\* configuration update starts the new manager only once the old one is
\* fully stopped.
C2_OneRunningPerSerial ==
    /\ \A s \in Serials : Cardinality(RunningFor(s)) <= 1
    /\ OldStoppedFirst

\* C7: once the application's shutdown has completed, the health loop has
\* ended and no relay task of any manager is alive.
C7_ShutdownEndsRelays ==
    shut.pc = "done" =>
        /\ polling_task = "done"
        /\ \A t \in TaskIds : ~Alive(t)

\* ============================================================= fan-out claims

\* C3: a broadcast during which subscribers are attached or detached still
\* completes without raising, and no subscriber, detached ones included,
\* receives the message in flight more than once.
C3_BroadcastSurvivesChurn ==
    /\ \A i \in BcIds : bc[i].res # "raised"
    /\ \A w \in WsIds, i \in BcIds :
          Cardinality({k \in DOMAIN got[w] : got[w][k] = i}) <= 1

\* C17: the broadcast calls for one serial are numbered in the order they
\* are invoked; a subscriber that is sent the messages of two calls is sent
\* the message of the earlier call first, also when the later call is
\* invoked while the earlier one is suspended in a write.
C17_BroadcastOrder ==
    \A w \in WsIds :
        \A j, k \in DOMAIN got[w] :
            (j < k /\ got[w][j] # 0 /\ got[w][k] # 0) => got[w][j] < got[w][k]

\* How many times x occurs in the sequence q.
Occurrences(q, x) == Cardinality({k \in DOMAIN q : q[k] = x})

\* A websocket whose handler is running although the websocket is in no
\* subscriber set: a broadcast pass has removed it.
PrunedOpen(u) ==
    /\ ws[u].client_state = "CONNECTED"
    /\ u \notin Subscribers(active_connections, ws[u].serial)

C19_PruneAfterPass ==
    [][\A i \in BcIds, ok \in BOOLEAN :
          (bc[i].pc = "send" /\ BroadcastSendDone(i, ok)) =>
             LET s == bc[i].serial
                 b == Iterate(Written(bc[i], ok))
             IN /\ bc'[i].pc = "send" => active_connections' = active_connections
                /\ (bc'[i].pc = "idle" /\ bc'[i].res = "ok") =>
                      /\ Subscribers(active_connections', s) \cap b.disconnected = {}
                      /\ \A w \in b.sent :
                            w \in Subscribers(active_connections, s) =>
                                w \in Subscribers(active_connections', s)]_vars

\* A call has returned after a pass in which one write raised and another
\* succeeded: the first subscriber is out of the set, its handler still
\* running, and the second is still subscribed.
C19_Witness ==
    \E i \in BcIds, u, w \in WsIds :
        /\ bc[i].res = "ok"
        /\ PrunedOpen(u)
        /\ w \in Subscribers(active_connections, ws[u].serial)
        /\ Occurrences(got[w], i) = 1
        /\ \A j \in BcIds : bc[j].pc = "idle"

\* C20: whatever a subscriber is sent by a broadcast call, it has been sent
\* the device information before: the first thing written to a websocket
\* that is registered in a subscriber set, by either endpoint, is the
\* device information.
C20_DeviceInfoFirst ==
    \A w \in WsIds :
        \A k \in DOMAIN got[w] :
            got[w][k] # 0 => \E j \in 1 .. (k - 1) : got[w][j] = 0

\* C29: a start request for a tracked serial whose registered manager is
\* Running is answered 409 (StreamAlreadyActive), and a stop, status or
\* configuration-update request for a serial with no registered manager is
\* answered 404 (StreamNotFound).
C29_ConflictAndNotFound ==
    [][\A c \in Clients, s \in Serials :
          /\ ( /\ ConnGet(connections, s) # 0
               /\ active_streams[s] # 0
               /\ is_running(mgr[active_streams[s]])
               /\ \E fail \in BOOLEAN : StartStream(c, s, fail) )
             => cl'[c].res = "409"
          /\ ( /\ active_streams[s] = 0
               /\ \/ StopStream(c, s)
                  \/ GetStreamStatus(c, s)
                  \/ \E fail \in BOOLEAN : UpdateStreamConfig(c, s, fail) )
             => cl'[c].res = "404"]_vars

\* C27: in the step in which shutdown() returns, the connection map and the
\* session map are empty and disconnect() has been called by shutdown() on
\* every connection the map held until then, whether the call succeeded
\* or failed.
C27_ShutdownDisconnectsAll ==
    [][(shut.pc # "done" /\ shut'.pc = "done")
          => /\ connections' = <<>>
             /\ \A s \in Serials : devices'[s] = 0
             /\ StoredConns \subseteq shut.snap]_vars

\* C28: the polling task ends only once shutdown() has been called; a cycle
\* that fails (the close() of an eviction raises) leaves the loop alive and
\* asleep until its next cycle; and from the step in which shutdown()
\* returns the task is done and the loop takes no further step.
C28_PollingUntilShutdown ==
    [][/\ polling_task' = "done" => shut'.pc # "idle"
       /\ (poll.pc = "close" /\ PollCloseDone(FALSE))
             => (polling_task' = "alive" /\ poll'.pc = "sleep")
       /\ shut'.pc = "done" => (polling_task' = "done" /\ poll'.pc = "done" /\ poll' = poll)]_vars

\* shutdown() has returned after cancelling a loop that was alive, with a
\* connection whose close() failed still holding its transport.
C28_Witness ==
    /\ shut.pc = "done"
    /\ poll.cancel
    /\ polling_task = "done"
    /\ \E k \in ConnIds : conns[k].alloc /\ is_connected(conns[k])

\* ============================================= connection and deploy claims

\* The artifact was on the device when the deploy() call of c was made.
PresentAtCall(c) ==
    IF cl[c].pc = "idle" THEN server_file.device ELSE cl[c].before.on_device

\* This step is a segment of a deploy() call of c.
DeployStep(c) ==
    \/ cl[c].pc = "idle" /\ Deploy(c)
    \/ cl[c].op = "deploy" /\ cl[c].pc # "idle"
          /\ \E out \in Replies, left \in BOOLEAN : TransportDone(c, out, left)

\* C21: a deploy() called while the artifact is at SERVER_REMOTE_PATH never
\* raises and never sends a push to the transport, whatever else holds.
C21_PresentMeansNoPush ==
    [][\A c \in Clients :
          (PresentAtCall(c) /\ DeployStep(c))
             => (cl'[c].res # "raised" /\ transport' # "push")]_vars

\* C22: for a deploy() called while the artifact is not on the device:
\* every failure it raises is a ScrcpyDeployError; it raises in the step in
\* which it finds the local artifact missing, the push or the chmod fails,
\* or the verification (with its fallback) does not confirm the artifact;
\* and it returns only from a confirming verification, with the artifact
\* on the device.
C22_AbsentDeploy ==
    [][\A c \in Clients :
          (~PresentAtCall(c) /\ DeployStep(c)) =>
             /\ cl'[c].res = "raised" => cl'[c].err.kind = "ScrcpyDeployError"
             /\ (cl[c].pc = "idle" /\ ~server_file.local) => cl'[c].res = "raised"
             /\ (cl[c].pc \in {"push", "chmod"} /\ TransportDone(c, "transport", FALSE))
                   => cl'[c].res = "raised"
             /\ (cl[c].pc = "verify" /\ TransportDone(c, "no", FALSE))
                   => cl'[c].res = "raised"
             /\ (cl[c].pc = "requery" /\ \E out \in {"no", "transport"} :
                                            TransportDone(c, out, FALSE))
                   => cl'[c].res = "raised"
             /\ cl'[c].res = "ok"
                   => /\ cl[c].pc \in {"verify", "requery"}
                      /\ server_file'.device]_vars

\* A deploy() called with the artifact absent has pushed it, the `file`
\* command has failed, and the call is suspended in the fallback query.
C22_Witness ==
    \E c \in Clients :
        /\ cl[c].op = "deploy"
        /\ cl[c].pc = "requery"
        /\ ~cl[c].before.on_device
        /\ server_file.device

\* C23: shell, push or pull called on a connection that is not connected
\* raises ADBDeviceOfflineError in the step of the call: the caller is not
\* left waiting, the transport is given nothing and the connection's
\* fields stay as they are.
C23_OfflineFailsAtOnce ==
    [][\A c \in Clients, op \in {"shell", "push", "pull"} :
          (~is_connected(connection) /\ cl[c].pc = "idle" /\ Command(c, op))
             => /\ cl'[c] = Raised(DeviceOffline)
                /\ transport' = transport
                /\ connection' = connection]_vars

\* A command has been refused on a connection whose handshake had failed:
\* the transport handle is there, the connection is not connected.
C23_Witness ==
    \E c \in Clients :
        /\ cl[c] = Raised(DeviceOffline)
        /\ connection.device
        /\ ~connection.connected
        /\ transport = "none"

\* C24: a shell command on a connected connection that fails with a
\* transport error leaves last_activity as it was when the command was
\* issued.
C24_ActivityOnlyOnSuccess ==
    [][\A c \in Clients :
          ( /\ cl[c].op = "shell"
            /\ cl[c].pc = "transport"
            /\ TransportDone(c, "transport", FALSE) )
             => connection'.last_activity = cl[c].before.last_activity]_vars

\* This step ends a disconnect() call of c, by return or by exception.
DisconnectOver(c) ==
    \/ cl[c].pc = "idle" /\ Disconnect(c) /\ cl'[c].pc = "idle"
    \/ cl[c].op = "disconnect" /\ cl[c].pc = "transport"
          /\ \E out \in Replies : TransportDone(c, out, FALSE)

\* C25: when a disconnect() call is over the connection is not connected
\* and holds no transport handle; and disconnect() on a connection that is
\* already in that state returns in the step of the call, without error,
\* and changes nothing.
C25_DisconnectClears ==
    [][\A c \in Clients :
          /\ DisconnectOver(c)
                => (~connection'.connected /\ ~connection'.device)
          /\ ( /\ ~connection.connected /\ ~connection.device
               /\ cl[c].pc = "idle" /\ Disconnect(c) )
                => /\ cl'[c] = Returned("ok", 0)
                   /\ connection' = connection
                   /\ transport' = transport]_vars

\* C26: a connect() that fails raises ADBConnectionError, whatever the
\* transport or the authentication raised, and leaves the connection not
\* connected.
C26_ConnectFailureKind ==
    [][\A c \in Clients :
          ( /\ cl[c].op = "connect"
            /\ cl[c].pc = "transport"
            /\ \E out \in {"transport", "auth"} : TransportDone(c, out, FALSE) )
             => /\ cl'[c].res = "raised"
                /\ cl'[c].err.kind = "ADBConnectionError"
                /\ ~is_connected(connection')]_vars


\* ============================= later claims ==============================

\* C31: no serial is a key of the subscriber dict with an empty set: when
\* the last subscriber of a serial is removed, by its handler or by a
\* broadcast call, the key goes with it.
C31_NoEmptySubscriberSet ==
    \A s \in DOMAIN active_connections : active_connections[s] # {}

\* A serial has lost its only subscriber and has no key, while the other
\* serial still has one.
C31_Witness ==
    \E w \in WsIds :
        /\ ws[w].pc = "closed"
        /\ ws[w].serial \notin DOMAIN active_connections
        /\ DOMAIN active_connections # {}

\* The connection that poll cycle's snapshot holds for serial s (0: none).
Checked(s) == ConnGet(poll.snap, s)

\* C32: when the close() of one eviction raises, every other device whose
\* health check of that cycle returned false has still been evicted by the
\* time the cycle is over: the connection that was checked is stored no more.
C32_EvictionIsolated ==
    [][\A ok \in BOOLEAN :
          (poll.pc = "close" /\ PollCloseDone(ok) /\ poll'.pc = "sleep") =>
             \A s \in Serials \ {poll.snap[poll.idx][1]} :
                (poll.results[s] = "false" /\ Checked(s) # 0) =>
                    ConnGet(connections', s) # Checked(s)]_vars

\* C35: in every state another task can observe, the serials that have a
\* stored connection are the serials that have a stored session.
C35_SameKeys == ConnKeys(connections) = list_devices

\* A device is tracked in both maps while another, evicted by the health
\* loop or disconnected by a caller, is in neither, and a disconnect of a
\* tracked device is suspended in close().
C35_Witness ==
    /\ list_devices # {} /\ list_devices # Serials
    /\ \E k \in ConnIds : conns[k].alloc /\ ~is_connected(conns[k])
    /\ \/ poll.pc = "close"
       \/ \E c \in Clients : cl[c].pc = "close"

\* C36: a step of a poll cycle touches no stored connection other than the
\* one the cycle checked: a connection stored for the serial after the
\* checks were started stays stored, with its session, as it was.
C36_EvictsCheckedOnly ==
    [][(poll' # poll /\ poll.pc \in {"gather", "close"}) =>
          \A s \in Serials :
             LET k == ConnGet(connections, s) IN
             (k # 0 /\ Checked(s) # 0 /\ k # Checked(s)) =>
                 /\ ConnGet(connections', s) = k
                 /\ devices'[s] = devices[s]
                 /\ conns'[k] = conns[k]]_vars

\* C40: when initialize() has returned on a registry that was shut down,
\* the health loop is running again: its task is alive and _running is set
\* (without which no later cycle checks or evicts a device).
C40_LoopRunsAgain ==
    [][Reinitialize => (polling_task' = "alive" /\ running')]_vars

\* The relay tasks of manager m that are alive.
Relays(m) == {t \in TaskIds : task[t].m = m /\ Alive(t)}

\* C37: a manager never has more than one live relay task, and a live relay
\* task is the one the manager holds the handle of.
C37_OneRelayTask ==
    \A m \in MgrIds :
        mgr[m].alloc =>
            /\ Cardinality(Relays(m)) <= 1
            /\ \A t \in Relays(m) : mgr[m].process_task = t

\* Caller c's start() on manager m returns in this step and no other call
\* on m is left in flight: a stop() that was invoked while the start() was
\* suspended in Starting has returned before.
LastCallReturns(c, m) ==
    /\ cl[c].op = "start" /\ cl[c].m = m /\ cl[c].pc = "deploy"
    /\ cl'[c].pc = "idle"
    /\ \A d \in Clients \ {c} : cl[d].pc = "idle"

\* C38: when stop() was invoked on a manager whose start() was suspended in
\* deploy (the state went Starting, Stopping, Stopped while the start() was
\* in flight) and both calls have returned, the manager is not Running and
\* has no live relay task.
C38_StopDuringStart ==
    [][\A c \in Clients, m \in MgrIds :
          ( /\ LastCallReturns(c, m)
            /\ EndsWith(mgr[m].trail, <<"Starting", "Stopping", "Stopped">>) )
          => /\ ~is_running(mgr'[m])
             /\ \A t \in TaskIds : task'[t].m = m => task'[t].pc \in {"free", "done", "cancelled"}]_vars

\* C33: with one caller, whose start() may be cancelled by a timeout while
\* the manager is in Starting: the cancelled start() leaves the manager in
\* Starting and Running is entered only by the step in which a start()
\* returns successfully, never by or after the cancelled one; and the
\* stop() that follows (the state goes Starting, Stopping, Stopped) returns
\* with the manager Stopped, start_time unset and no relay task alive.
C33_CancelledStart ==
    [][\A c \in Clients, m \in MgrIds :
          /\ (cl[c].pc = "deploy" /\ cl'[c].res = "timeout" /\ cl[c].m = m)
                => mgr'[m].state = "Starting"
          /\ (mgr'[m].state = "Running" /\ mgr[m].state # "Running")
                => \E d \in Clients :
                      cl[d].pc = "deploy" /\ StartMgr(cl[d]) = m /\ cl'[d].res = "ok"
          /\ ( /\ cl[c].pc \in {"idle", "stop_cleanup"}
               /\ cl'[c].pc = "idle" /\ cl'[c].res = "ok"
               /\ mgr'[m].trail # mgr[m].trail
               /\ EndsWith(mgr'[m].trail, <<"Starting", "Stopping", "Stopped">>) )
                => /\ ReportsStopped(mgr'[m])
                   /\ Relays(m) = {}
                   /\ \A t \in TaskIds : task'[t].m = m =>
                         task'[t].pc \in {"free", "done", "cancelled"}]_vars

\* A start() was cancelled in Starting and the stop() that followed has
\* returned: the state went Starting, Stopping, Stopped.
C33_Witness ==
    \E m \in MgrIds :
        /\ mgr[m].alloc
        /\ EndsWith(mgr[m].trail, <<"Starting", "Stopping", "Stopped">>)
        /\ ReportsStopped(mgr[m])
        /\ cl["c1"].pc = "idle" /\ cl["c1"].res = "ok"

\* C39: a manager that is Running over a connection the registry has
\* disconnected does not stay Running for ever.
C39_DroppedLeavesRunning ==
    (Dropped(1) /\ is_running(mgr[1])) ~> ~is_running(mgr[1])

\* C34: while one subscriber's write never completes, a broadcast pass that
\* is under way still comes to an end or delivers its message to every
\* other open subscriber of the serial.
C34_StuckWriteIsolated ==
    \A i \in BcIds, u \in WsIds \ {Stuck} :
        ( /\ bc[i].pc = "send"
          /\ u \in Subscribers(active_connections, bc[i].serial)
          /\ ws[u].client_state = "CONNECTED" )
        ~> ( \/ bc[i].pc # "send"
             \/ Occurrences(got[u], i) >= 1
             \/ u \notin Subscribers(active_connections, bc[i].serial) )
====
